---- MODULE Spec2Model ----
(***************************************************************************)
(* Shader detection and property mapping of the Synty material converter:  *)
(* detect_shader_type and map_material of shader_mapping.py with their     *)
(* lookup tables.                                                          *)
(*                                                                         *)
(* Conventions of the model                                                *)
(*   - Python str values are TLA+ strings; a name is searched character by *)
(*     character, as re.search does.                                       *)
(*   - Python floats are fixed-point integers in hundredths: 1.0 is 100,   *)
(*     0.7 is 70, 0.15 is 15. Only ==, !=, >= and copying are applied to   *)
(*     them by the code that is modelled.                                  *)
(*   - A dict the code iterates over (material.floats, material.colors,    *)
(*     material.tex_envs, shader_scores) is an insertion-ordered sequence  *)
(*     of [k, v] entries with distinct keys. A dict the code only looks up *)
(*     or returns is a function.                                           *)
(*   - None is the value None; Truthy is Python truthiness of an optional  *)
(*     string.                                                             *)
(***************************************************************************)
EXTENDS Integers, Sequences, FiniteSets, TLC

VARIABLES
    pc,                 \* "start", then "detected", "mapped", "determined" (the operation returned),
                        \* or "building" and "built" (build_shader_cache is in its loops, has returned),
                        \* or "parsing", then "parsed" or "raised" (parse_material_list)
    material,           \* the UnityMaterial argument
    texture_guid_map,   \* the texture GUID -> file name argument of map_material
    override_shader,    \* the override_shader argument of map_material
    shader,             \* the value returned by detect_shader_type
    result,             \* the MappedMaterial returned by map_material
    detect_calls,       \* how many times map_material has called detect_shader_type
    scores,             \* shader_scores of detect_shader_type when it decides ([shader -> points], scored shaders only)
    property_maps,      \* the module-level TEXTURE_MAPS, FLOAT_MAPS and COLOR_MAPS that map_material
                        \* reads, as they stand (empty for the operations that do not read them)
    determine_name,     \* the material_name argument of determine_shader
    determine_custom,   \* the uses_custom_shader argument of determine_shader
    decision,           \* the (shader, matched) pair returned by determine_shader
    prefabs,            \* the prefabs argument of build_shader_cache
    pos,                \* the slot the loops of build_shader_cache are at: <<prefab, mesh, slot>>, <<>> past the last
    prefab_slot_shaders,    \* build_shader_cache: slot index -> shader decided at the first mesh of the prefab
    shader_cache,           \* build_shader_cache: material name -> shader
    unmatched_materials,    \* build_shader_cache: the names reported for review, in order
    classified,             \* the names build_shader_cache has called determine_shader with, in order
    file_lines,         \* the lines of the file parse_material_list reads
    line_num,           \* parse_material_list: the line its loop is at, from 1
    current_prefab,     \* parse_material_list: the prefab being filled, NoPrefab for None
    current_mesh        \* parse_material_list: the mesh being filled, NoMesh for None

materialVars ==
    <<material, texture_guid_map, override_shader, shader, result, detect_calls, scores,
      property_maps>>

determineVars == <<determine_name, determine_custom, decision>>

cacheVars ==
    <<prefabs, pos, prefab_slot_shaders, shader_cache, unmatched_materials, classified>>

parseVars == <<file_lines, line_num, current_prefab, current_mesh>>

vars == <<pc, materialVars, determineVars, cacheVars, parseVars>>

None == "None"

Truthy(x) == x # None /\ x # ""

(***************************************************************************)
(* Property tables                                                         *)
(***************************************************************************)

SHADER_GUID_MAP ==
       ("0730dae39bc73f34796280af9875ce14" :> "polygon.gdshader")
    @@ ("9b98a126c8d4d7a4baeb81b16e4f7b97" :> "foliage.gdshader")
    @@ ("0736e099ec10c9e46b9551b2337d0cc7" :> "particles.gdshader")
    @@ ("19e269a311c45cd4482cf0ac0e694503" :> "polygon.gdshader")
    @@ ("436db39b4e2ae5e46a17e21865226b19" :> "water.gdshader")
    @@ ("5808064c5204e554c89f589a7059c558" :> "crystal.gdshader")
    @@ ("de1d86872962c37429cb628a7de53613" :> "skydome.gdshader")
    @@ ("4a6c8c23090929241b2a55476a46a9b1" :> "clouds.gdshader")
    @@ ("dfec08fb273e4674bb5398df25a5932c" :> "foliage.gdshader")
    @@ ("fdea4239d29733541b44cd6960afefcd" :> "crystal.gdshader")
    @@ ("3b44a38ec6f81134ab0f820ac54d6a93" :> "polygon.gdshader")
    @@ ("3d532bc2d70158948859b7839127e562" :> "skydome.gdshader")
    @@ ("74fa94d128fe4f348889c6f5f182e0e1" :> "skydome.gdshader")
    @@ ("0835602ed30128f4a88a652bf920fcaa" :> "polygon.gdshader")
    @@ ("2b5804ffd3081d344bed894a653e3014" :> "polygon.gdshader")
    @@ ("5c2ccdfe181d55b42bd5313305f194e4" :> "polygon.gdshader")
    @@ ("77e5bdd170fa4a4459dea431aba43e3c" :> "polygon.gdshader")
    @@ ("972cd3fede1c33342b0f52ad57f47d90" :> "polygon.gdshader")
    @@ ("c48a4461fec61fc45a01e7d6a50e520f" :> "foliage.gdshader")
    @@ ("325b924500ba5804aa4b407d80084502" :> "polygon.gdshader")
    @@ ("0ecc70cac2c8895439f5094ba6660db8" :> "polygon.gdshader")
    @@ ("5d828b280155912429aa717d34cd8879" :> "polygon.gdshader")
    @@ ("62e87ad08a1afa642830420bf8e0dd4d" :> "polygon.gdshader")
    @@ ("2a33a166317493947a7be330dcc78a05" :> "polygon.gdshader")
    @@ ("e9556606a5f42464fa7dd78d624dc180" :> "polygon.gdshader")
    @@ ("a49be8e7504a48b4fba9b0c2a7fad57b" :> "polygon.gdshader")
    @@ ("1f67b66c29dfd4f45aa8cc07bf5e901a" :> "polygon.gdshader")
    @@ ("a711ca3b984db6a4e81ec2d50ca4c0ca" :> "polygon.gdshader")
    @@ ("5d014726978e80a43b6178cba929343b" :> "polygon.gdshader")
    @@ ("a7331fc07349b124c8c15d545676f9ed" :> "polygon.gdshader")
    @@ ("d0be6b296f23e8d459e94b4007017ea0" :> "polygon.gdshader")
    @@ ("e8b857c3d7fea464e942e1c1f0940e96" :> "polygon.gdshader")
    @@ ("e312e3877c798a44dba23093a3417a94" :> "polygon.gdshader")
    @@ ("a2cae5b0e99e16249b9a2163a7087bcb" :> "foliage.gdshader")
    @@ ("d2820334f2975bb47ab3f2fffa1b4cbe" :> "skydome.gdshader")
    @@ ("b83105300c9f7fb42a6e1b790fd2bd29" :> "particles.gdshader")
    @@ ("00eec7c5cd1f4c6429ffee9a690c3d16" :> "particles.gdshader")
    @@ ("f3534f26c7b573c45a1346e0634d57fc" :> "polygon.gdshader")
    @@ ("e17f8fe2503580447a3784d34b316d11" :> "polygon.gdshader")
    @@ ("933532a4fcc9baf4fa0491de14d08ed7" :> "polygon.gdshader")
    @@ ("56ef766d507df464fb2a1726a99c925f" :> "particles.gdshader")
    @@ ("1ab581f9e0198304996581171522f458" :> "water.gdshader")
    @@ ("4b0390819f518774fa1a44198298459a" :> "foliage.gdshader")
    @@ ("0000000000000000f000000000000000" :> "polygon.gdshader")
    @@ ("e854bc7dc0cde7044b9000faaf0c4e11" :> "polygon.gdshader")
    @@ ("9b1e1d14d7778714391ae095571c3d4f" :> "water.gdshader")
    @@ ("df6b3a02955954d41bb15c534388ba14" :> "polygon.gdshader")
    @@ ("903fe97c2d85c8147a64932806c92eb1" :> "water.gdshader")
    @@ ("ca9b700964f37d84a90b00c70d981934" :> "skydome.gdshader")
    @@ ("ab6da834753539b4989259dbf4bcc39b" :> "polygon.gdshader")
    @@ ("22e3738818284144eb7ada0a62acca66" :> "polygon.gdshader")
    @@ ("402ae1c33e4c28c45876b1bc945b77e6" :> "particles.gdshader")
    @@ ("da24369d453e6a547aaa57ebee28fc81" :> "polygon.gdshader")
    @@ ("8e5d248915e86014095ff0547bc0c755" :> "polygon.gdshader")
    @@ ("1bf4a2dc982313347912f313ba25f563" :> "polygon.gdshader")
    @@ ("e603b0446c7f2804db0c8dd0fb5c1af0" :> "polygon.gdshader")

SHADER_NAME_PATTERNS_SCORED ==
    << [alts |-> {"triplanar"},
       opt |-> {}, shader |-> "polygon.gdshader", score |-> 60],
       [alts |-> {"caustics"},
       opt |-> {}, shader |-> "water.gdshader", score |-> 55],
       [alts |-> {"fresnel", "refractive", "refraction"},
       opt |-> {}, shader |-> "crystal.gdshader", score |-> 55],
       [alts |-> {},
       opt |-> {<<"soft", "particle">>}, shader |-> "particles.gdshader", score |-> 55],
       [alts |-> {"skydome", "sky_dome", "skybox", "sky_box"},
       opt |-> {}, shader |-> "skydome.gdshader", score |-> 55],
       [alts |-> {"crystal", "gem", "jewel", "diamond", "ruby", "emerald", "sapphire", "amethyst", "quartz"},
       opt |-> {}, shader |-> "crystal.gdshader", score |-> 45],
       [alts |-> {"water", "ocean", "river", "lake", "waterfall"},
       opt |-> {}, shader |-> "water.gdshader", score |-> 45],
       [alts |-> {"particle", "fx_"},
       opt |-> {}, shader |-> "particles.gdshader", score |-> 45],
       [alts |-> {"cloud", "clouds", "sky_cloud"},
       opt |-> {}, shader |-> "clouds.gdshader", score |-> 45],
       [alts |-> {"glass", "ice", "transparent", "translucent"},
       opt |-> {}, shader |-> "crystal.gdshader", score |-> 35],
       [alts |-> {"pond", "stream", "liquid", "aqua", "sea"},
       opt |-> {}, shader |-> "water.gdshader", score |-> 35],
       [alts |-> {"fog", "mist", "atmosphere"},
       opt |-> {}, shader |-> "clouds.gdshader", score |-> 35],
       [alts |-> {"spark", "dust", "debris", "smoke", "fire", "rain", "snow", "splash"},
       opt |-> {}, shader |-> "particles.gdshader", score |-> 35],
       [alts |-> {"aurora", "sky_gradient"},
       opt |-> {}, shader |-> "skydome.gdshader", score |-> 35],
       [alts |-> {"foliage", "vegetation"},
       opt |-> {}, shader |-> "foliage.gdshader", score |-> 35],
       [alts |-> {"tree", "fern", "grass", "vine", "branch", "willow", "bush", "shrub", "hedge", "bamboo", "koru", "treefern"},
       opt |-> {}, shader |-> "foliage.gdshader", score |-> 25],
       [alts |-> {"leaf", "leaves"},
       opt |-> {}, shader |-> "foliage.gdshader", score |-> 20],
       [alts |-> {"bark", "trunk", "undergrowth", "plant"},
       opt |-> {}, shader |-> "foliage.gdshader", score |-> 20],
       [alts |-> {"moss", "dirt"},
       opt |-> {}, shader |-> "polygon.gdshader", score |-> 15],
       [alts |-> {"effect", "additive"},
       opt |-> {}, shader |-> "particles.gdshader", score |-> 15] >>

TEXTURE_MAP_FOLIAGE ==
       ("_Leaf_Texture" :> "leaf_color")
    @@ ("_Leaf_Normal" :> "leaf_normal")
    @@ ("_Trunk_Texture" :> "trunk_color")
    @@ ("_Trunk_Normal" :> "trunk_normal")
    @@ ("_Leaf_Ambient_Occlusion" :> "leaf_ao")
    @@ ("_Trunk_Ambient_Occlusion" :> "trunk_ao")
    @@ ("_Emissive_Mask" :> "emissive_mask")
    @@ ("_Emissive_2_Mask" :> "emissive_2_mask")
    @@ ("_Emissive_Pulse_Map" :> "emissive_pulse_mask")
    @@ ("_Trunk_Emissive_Mask" :> "trunk_emissive_mask")
    @@ ("_Breeze_Noise_Map" :> "breeze_noise_map")

TEXTURE_MAP_POLYGON ==
       ("_Base_Texture" :> "base_texture")
    @@ ("_Normal_Texture" :> "normal_texture")
    @@ ("_Emission_Texture" :> "emission_texture")
    @@ ("_AO_Texture" :> "ao_texture")
    @@ ("_Triplanar_Texture_Top" :> "triplanar_texture_top")
    @@ ("_Triplanar_Texture_Side" :> "triplanar_texture_side")
    @@ ("_Triplanar_Texture_Bottom" :> "triplanar_texture_bottom")
    @@ ("_Albedo_Map" :> "base_texture")
    @@ ("_BaseMap" :> "base_texture")
    @@ ("_MainTex" :> "base_texture")
    @@ ("_Normal_Map" :> "normal_texture")
    @@ ("_BumpMap" :> "normal_texture")
    @@ ("_Emission_Map" :> "emission_texture")
    @@ ("_EmissionMap" :> "emission_texture")
    @@ ("_OcclusionMap" :> "ao_texture")
    @@ ("_Metallic_Smoothness_Texture" :> "metallic_texture")
    @@ ("_MetallicGlossMap" :> "metallic_texture")
    @@ ("_MainTexture" :> "base_texture")
    @@ ("_Emission" :> "emission_texture")
    @@ ("_Hair_Mask" :> "hair_mask")
    @@ ("_Skin_Mask" :> "skin_mask")
    @@ ("_Mask_01" :> "mask_01")
    @@ ("_Mask_02" :> "mask_02")
    @@ ("_Mask_03" :> "mask_03")
    @@ ("_Mask_04" :> "mask_04")
    @@ ("_Mask_05" :> "mask_05")
    @@ ("_Metallic_Map" :> "metallic_texture")
    @@ ("_Grunge_Map" :> "grunge_map")
    @@ ("_Blood_Mask" :> "blood_mask")
    @@ ("_Blood_Texture" :> "blood_texture")
    @@ ("_Rune_Texture" :> "rune_texture")
    @@ ("_Floor" :> "floor_texture")
    @@ ("_Wall" :> "wall_texture")
    @@ ("_Ceiling" :> "ceiling_texture")
    @@ ("_Back" :> "back_texture")
    @@ ("_Props" :> "props_texture")
    @@ ("_Scan_Line_Map" :> "scan_line_map")
    @@ ("_LED_Mask_01" :> "led_mask")
    @@ ("_Cloth_Mask" :> "cloth_mask")
    @@ ("_Overlay_Texture" :> "overlay_texture")
    @@ ("_Triplanar_Emission_Texture" :> "triplanar_emission_texture")
    @@ ("_Triplanar_Normal_Texture_Bottom" :> "triplanar_normal_bottom")
    @@ ("_Triplanar_Normal_Texture_Side" :> "triplanar_normal_side")
    @@ ("_Triplanar_Normal_Texture_Top" :> "triplanar_normal_top")
    @@ ("_Moss" :> "overlay_texture")
    @@ ("_MossTexture" :> "overlay_texture")
    @@ ("_ParallaxMap" :> "height_texture")
    @@ ("_HeightMap" :> "height_texture")
    @@ ("_Alpha_Texture" :> "alpha_texture")
    @@ ("_Spherical_Map" :> "spherical_map")
    @@ ("_Snow_Normal_Texture" :> "snow_normal_texture")
    @@ ("_Snow_Metallic_Smoothness_Texture" :> "snow_metallic_smoothness")
    @@ ("_Snow_Edge_Noise" :> "snow_edge_noise")
    @@ ("_LED_Panel_Emissive_Wave_01" :> "led_emissive_wave")
    @@ ("_Pixelation_Map" :> "pixelation_map")
    @@ ("_DetailAlbedoMap" :> "detail_albedo")
    @@ ("_DetailNormalMap" :> "detail_normal")
    @@ ("_DetailMask" :> "detail_mask")

TEXTURE_MAP_CRYSTAL ==
       ("_Base_Albedo" :> "base_albedo")
    @@ ("_Base_Normal" :> "base_normal")
    @@ ("_Refraction_Height" :> "refraction_height")
    @@ ("_Refraction_Texture" :> "refraction_texture")
    @@ ("_Top_Albedo" :> "top_albedo")
    @@ ("_Top_Normal" :> "top_normal")
    @@ ("_MainTex" :> "base_albedo")
    @@ ("_BumpMap" :> "base_normal")
    @@ ("_BaseMap" :> "base_albedo")

TEXTURE_MAP_WATER ==
       ("_Caustics_Flipbook" :> "caustics_flipbook")
    @@ ("_Foam_Noise_Texture" :> "noise_texture")
    @@ ("_Foam_Texture" :> "noise_texture")
    @@ ("_Foam_Texture1" :> "noise_texture")
    @@ ("_FoamMask" :> "noise_texture")
    @@ ("_Noise_Texture" :> "noise_texture")
    @@ ("_Normal_Map" :> "normal_texture")
    @@ ("_Normal_Texture" :> "normal_texture")
    @@ ("_Scrolling_Texture" :> "scrolling_texture")
    @@ ("_Shore_Foam_Noise_Texture" :> "shore_foam_noise_texture")
    @@ ("_Water_Normal_Texture" :> "normal_texture")
    @@ ("_WaterNormal" :> "normal_texture")
    @@ ("_WaterNormal1" :> "normal_texture")
    @@ ("_WaterNormal2" :> "normal_texture")
    @@ ("_RipplesNormal" :> "normal_texture")
    @@ ("_RipplesNormal2" :> "normal_texture")
    @@ ("_WaveMask" :> "noise_texture")
    @@ ("_WaveMaskTuff" :> "noise_texture")
    @@ ("_WaveNoise" :> "noise_texture")
    @@ ("_Shore_Wave_Foam_Noise_Texture" :> "shore_foam_noise_texture")
    @@ ("_Water_Noise_Texture" :> "noise_texture")
    @@ ("_MainTex" :> "normal_texture")
    @@ ("_BumpMap" :> "normal_texture")
    @@ ("_BaseMap" :> "normal_texture")

TEXTURE_MAP_PARTICLES ==
       ("_Albedo_Map" :> "albedo_map")
    @@ ("_MainTex" :> "albedo_map")
    @@ ("_BaseMap" :> "albedo_map")

TEXTURE_MAP_SKYDOME ==
    [x \in {} |-> ""]

TEXTURE_MAP_CLOUDS ==
    [x \in {} |-> ""]

TEXTURE_MAPS ==
       ("foliage.gdshader" :> TEXTURE_MAP_FOLIAGE)
    @@ ("polygon.gdshader" :> TEXTURE_MAP_POLYGON)
    @@ ("crystal.gdshader" :> TEXTURE_MAP_CRYSTAL)
    @@ ("water.gdshader" :> TEXTURE_MAP_WATER)
    @@ ("particles.gdshader" :> TEXTURE_MAP_PARTICLES)
    @@ ("skydome.gdshader" :> TEXTURE_MAP_SKYDOME)
    @@ ("clouds.gdshader" :> TEXTURE_MAP_CLOUDS)

FLOAT_MAP_FOLIAGE ==
       ("_Metallic" :> "metallic")
    @@ ("_Smoothness" :> "smoothness")
    @@ ("_Glossiness" :> "smoothness")
    @@ ("_LeafSmoothness" :> "leaf_smoothness")
    @@ ("_Leaf_Smoothness" :> "leaf_smoothness")
    @@ ("_Leaf_Metallic" :> "leaf_metallic")
    @@ ("_TrunkSmoothness" :> "trunk_smoothness")
    @@ ("_Trunk_Smoothness" :> "trunk_smoothness")
    @@ ("_Trunk_Metallic" :> "trunk_metallic")
    @@ ("_Breeze_Strength" :> "breeze_strength")
    @@ ("_Light_Wind_Strength" :> "light_wind_strength")
    @@ ("_Strong_Wind_Strength" :> "strong_wind_strength")
    @@ ("_Wind_Twist_Strength" :> "wind_twist_strength")
    @@ ("_Gale_Blend" :> "gale_blend")
    @@ ("_Light_Wind_Y_Strength" :> "light_wind_y_strength")
    @@ ("_Light_Wind_Y_Offset" :> "light_wind_y_offset")
    @@ ("_Alpha_Clip_Threshold" :> "alpha_clip_threshold")
    @@ ("_Normal_Intensity" :> "normal_intensity")
    @@ ("_BumpScale" :> "normal_intensity")
    @@ ("_Frosting_Falloff" :> "frosting_falloff")
    @@ ("_Frosting_Height" :> "frosting_height")
    @@ ("_Leaves_WindAmount" :> "breeze_strength")
    @@ ("_Tree_WindAmount" :> "light_wind_strength")
    @@ ("_Cutoff" :> "alpha_clip_threshold")
    @@ ("_AlphaCutoff" :> "alpha_clip_threshold")

FLOAT_MAP_POLYGON ==
       ("_Smoothness" :> "smoothness")
    @@ ("_Glossiness" :> "smoothness")
    @@ ("_Metallic" :> "metallic")
    @@ ("_Snow_Level" :> "snow_level")
    @@ ("_Normal_Intensity" :> "normal_intensity")
    @@ ("_Normal_Amount" :> "normal_intensity")
    @@ ("_BumpScale" :> "normal_intensity")
    @@ ("_AO_Intensity" :> "ao_intensity")
    @@ ("_OcclusionStrength" :> "ao_intensity")
    @@ ("_Alpha_Clip_Threshold" :> "alpha_clip_threshold")
    @@ ("_Cutoff" :> "alpha_clip_threshold")
    @@ ("_AlphaCutoff" :> "alpha_clip_threshold")
    @@ ("_HoloLines" :> "holo_lines")
    @@ ("_Scroll_Speed" :> "scroll_speed")
    @@ ("_Opacity" :> "opacity")
    @@ ("_Hologram_Intensity" :> "hologram_intensity")
    @@ ("_Screen_Bulge" :> "screen_bulge")
    @@ ("_Screen_Flicker_Frequency" :> "screen_flicker_frequency")
    @@ ("_Vignette_Amount" :> "vignette_amount")
    @@ ("_Pixelation_Amount" :> "pixelation_amount")
    @@ ("_CRT_Curve" :> "crt_curve")
    @@ ("_RoomTile" :> "room_tile")
    @@ ("_RoomIntensity" :> "room_intensity")
    @@ ("_WindowAlpha" :> "window_alpha")
    @@ ("_RoomDepth" :> "room_depth")
    @@ ("_Transparency" :> "transparency")
    @@ ("_RimPower" :> "rim_power")
    @@ ("_TransShadow" :> "trans_shadow")
    @@ ("_Ghost_Strength" :> "ghost_strength")
    @@ ("_Dirt_Amount" :> "dirt_amount")
    @@ ("_Dust_Amount" :> "dust_amount")
    @@ ("_Grunge_Intensity" :> "grunge_intensity")
    @@ ("_Glow_Amount" :> "glow_amount")
    @@ ("_Glow_Falloff" :> "glow_falloff")
    @@ ("_dissolve" :> "dissolve")
    @@ ("_twirlstr" :> "twirl_strength")
    @@ ("_Rune_Speed" :> "rune_speed")
    @@ ("_liquidamount" :> "liquid_amount")
    @@ ("_WobbleX" :> "wobble_x")
    @@ ("_WobbleZ" :> "wobble_z")
    @@ ("_Wave_Scale" :> "wave_scale")
    @@ ("_Foam_Line" :> "foam_line")
    @@ ("_Rim_Width" :> "rim_width")
    @@ ("_BloodAmount" :> "blood_amount")
    @@ ("_Blood_Intensity" :> "blood_intensity")
    @@ ("_Brightness" :> "brightness")
    @@ ("_UVScrollSpeed" :> "uv_scroll_speed")
    @@ ("_Saturation" :> "saturation")
    @@ ("_Neon_Intensity" :> "neon_intensity")
    @@ ("_Pulse_Speed" :> "pulse_speed")
    @@ ("_Wave_Speed" :> "wave_speed")
    @@ ("_Wave_Amplitude" :> "wave_amplitude")
    @@ ("_Wind_Influence" :> "wind_influence")
    @@ ("_BodyArt_Amount" :> "bodyart_amount")
    @@ ("_Tattoo_Amount" :> "tattoo_amount")
    @@ ("_Flipbook_Width" :> "flipbook_width")
    @@ ("_Flipbook_Height" :> "flipbook_height")
    @@ ("_Flipbook_Speed" :> "flipbook_speed")
    @@ ("_Distortion_strength" :> "distortion_strength")
    @@ ("_Edge_Distortion_Intensity" :> "edge_distortion_intensity")
    @@ ("_Speed_X" :> "speed_x")
    @@ ("_Speed_Y" :> "speed_y")
    @@ ("_Snow_Transition" :> "snow_transition")
    @@ ("_Snow_Metallic" :> "snow_metallic")
    @@ ("_Snow_Smoothness" :> "snow_smoothness")
    @@ ("_Snow_Normal_Intensity" :> "snow_normal_intensity")
    @@ ("_Triplanar_Fade" :> "triplanar_fade")
    @@ ("_Triplanar_Intensity" :> "triplanar_intensity")
    @@ ("_Triplanar_Normal_Intensity_Top" :> "triplanar_normal_intensity_top")
    @@ ("_Triplanar_Normal_Intensity_Side" :> "triplanar_normal_intensity_side")
    @@ ("_Triplanar_Normal_Intensity_Bottom" :> "triplanar_normal_intensity_bottom")
    @@ ("_Emission_Intensity" :> "emission_intensity")
    @@ ("_DetailNormalMapScale" :> "detail_normal_scale")

FLOAT_MAP_CRYSTAL ==
       ("_Metallic" :> "metallic")
    @@ ("_Smoothness" :> "smoothness")
    @@ ("_Glossiness" :> "smoothness")
    @@ ("_Opacity" :> "opacity")
    @@ ("_Fresnel_Power" :> "fresnel_power")
    @@ ("_Refraction_Strength" :> "refraction_strength")
    @@ ("_Deep_Depth" :> "deep_depth")
    @@ ("_Shallow_Depth" :> "shallow_depth")
    @@ ("_Normal_Intensity" :> "normal_intensity")
    @@ ("_BumpScale" :> "normal_intensity")

FLOAT_MAP_WATER ==
       ("_Smoothness" :> "smoothness")
    @@ ("_Glossiness" :> "smoothness")
    @@ ("_Metallic" :> "metallic")
    @@ ("_Base_Opacity" :> "base_opacity")
    @@ ("_Shallows_Opacity" :> "shallows_opacity")
    @@ ("_Maximum_Depth" :> "maximum_depth")
    @@ ("_Normal_Intensity" :> "normal_intensity")
    @@ ("_BumpScale" :> "normal_intensity")
    @@ ("_Shore_Wave_Speed" :> "shore_wave_speed")
    @@ ("_Ocean_Wave_Height" :> "ocean_wave_height")
    @@ ("_Ocean_Wave_Speed" :> "ocean_wave_speed")
    @@ ("_Distortion_Strength" :> "distortion_strength")
    @@ ("_Deep_Height" :> "deep_height")
    @@ ("_Very_Deep_Height" :> "very_deep_height")
    @@ ("_Depth_Distance" :> "depth_distance")
    @@ ("_Water_Depth" :> "water_depth")
    @@ ("_ShallowFalloff" :> "shallow_intensity")
    @@ ("_OverallFalloff" :> "base_opacity")
    @@ ("_OpacityFalloff" :> "shallows_opacity")
    @@ ("_Shore_Foam_Intensity" :> "shore_foam_intensity")
    @@ ("_FoamShoreline" :> "shore_foam_intensity")
    @@ ("_FoamDepth" :> "shore_foam_intensity")
    @@ ("_FoamFalloff" :> "ocean_foam_opacity")
    @@ ("_Caustics_Intensity" :> "caustics_intensity")
    @@ ("_CausticDepthFade" :> "caustics_intensity")
    @@ ("_CausticScale" :> "caustics_scale")
    @@ ("_CausticSpeed" :> "caustics_speed")
    @@ ("_Shallow_Intensity" :> "shallow_intensity")
    @@ ("_FresnelPower" :> "fresnel_power")
    @@ ("_UVScrollSpeed" :> "uv_scroll_speed")

FLOAT_MAP_PARTICLES ==
       ("_Alpha_Clip_Treshold" :> "alpha_clip_threshold")
    @@ ("_Alpha_Clip_Threshold" :> "alpha_clip_threshold")
    @@ ("_Cutoff" :> "alpha_clip_threshold")
    @@ ("_AlphaCutoff" :> "alpha_clip_threshold")
    @@ ("_Soft_Power" :> "soft_power")
    @@ ("_Soft_Distance" :> "soft_distance")
    @@ ("_Camera_Fade_Near" :> "camera_fade_near")
    @@ ("_Camera_Fade_Far" :> "camera_fade_far")
    @@ ("_Camera_Fade_Smoothness" :> "camera_fade_smoothness")
    @@ ("_View_Edge_Power" :> "view_edge_power")
    @@ ("_Fog_Density" :> "fog_density")

FLOAT_MAP_SKYDOME ==
       ("_Falloff" :> "falloff")
    @@ ("_Offset" :> "offset")
    @@ ("_Distance" :> "distance_")

FLOAT_MAP_CLOUDS ==
       ("_Light_Intensity" :> "light_intensity")
    @@ ("_Fresnel_Power" :> "fresnel_power")
    @@ ("_Fog_Density" :> "fog_density")
    @@ ("_Scattering_Multiplier" :> "scattering_multiplier")
    @@ ("_Cloud_Speed" :> "cloud_speed")
    @@ ("_Cloud_Strength" :> "cloud_strength")
    @@ ("_CloudCoverage" :> "cloud_strength")
    @@ ("_CloudPower" :> "cloud_strength")
    @@ ("_CloudSpeed" :> "cloud_speed")
    @@ ("_Cloud_Contrast" :> "scattering_multiplier")
    @@ ("_Cloud_Falloff" :> "fog_density")
    @@ ("_Aurora_Speed" :> "aurora_speed")
    @@ ("_Aurora_Intensity" :> "aurora_intensity")
    @@ ("_Aurora_Scale" :> "aurora_scale")

FLOAT_MAPS ==
       ("foliage.gdshader" :> FLOAT_MAP_FOLIAGE)
    @@ ("polygon.gdshader" :> FLOAT_MAP_POLYGON)
    @@ ("crystal.gdshader" :> FLOAT_MAP_CRYSTAL)
    @@ ("water.gdshader" :> FLOAT_MAP_WATER)
    @@ ("particles.gdshader" :> FLOAT_MAP_PARTICLES)
    @@ ("skydome.gdshader" :> FLOAT_MAP_SKYDOME)
    @@ ("clouds.gdshader" :> FLOAT_MAP_CLOUDS)

COLOR_MAP_FOLIAGE ==
       ("_Color" :> "color_tint")
    @@ ("_Color_Tint" :> "color_tint")
    @@ ("_BaseColor" :> "color_tint")
    @@ ("_Leaf_Base_Color" :> "leaf_base_color")
    @@ ("_Trunk_Base_Color" :> "trunk_base_color")
    @@ ("_Leaf_Noise_Color" :> "leaf_noise_color")
    @@ ("_Trunk_Noise_Color" :> "trunk_noise_color")
    @@ ("_Emissive_Color" :> "emissive_color")
    @@ ("_Emissive_2_Color" :> "emissive_2_color")
    @@ ("_Trunk_Emissive_Color" :> "trunk_emissive_color")
    @@ ("_Frosting_Color" :> "frosting_color")
    @@ ("_ColorTint" :> "color_tint")

COLOR_MAP_POLYGON ==
       ("_Color_Tint" :> "color_tint")
    @@ ("_Color" :> "color_tint")
    @@ ("_BaseColor" :> "color_tint")
    @@ ("_BaseColour" :> "color_tint")
    @@ ("_Emission_Color" :> "emission_color")
    @@ ("_EmissionColor" :> "emission_color")
    @@ ("_Snow_Color" :> "snow_color")
    @@ ("_Hair_Color" :> "hair_color")
    @@ ("_Skin_Color" :> "skin_color")
    @@ ("_Neon_Colour_01" :> "neon_color_01")
    @@ ("_Neon_Colour_02" :> "neon_color_02")
    @@ ("_Hologram_Color" :> "hologram_color")
    @@ ("_RimColor" :> "rim_color")
    @@ ("_Dust_Colour" :> "dust_color")
    @@ ("_Glow_Colour" :> "glow_color")
    @@ ("_Glow_Tint" :> "glow_tint")
    @@ ("_Liquid_Color" :> "liquid_color")
    @@ ("_BloodColor" :> "blood_color")
    @@ ("_Blood_Color" :> "blood_color")
    @@ ("_Color_Primary" :> "color_primary")
    @@ ("_Color_Secondary" :> "color_secondary")
    @@ ("_Color_Tertiary" :> "color_tertiary")
    @@ ("_Color_Metal_Primary" :> "color_metal_primary")
    @@ ("_Color_Metal_Secondary" :> "color_metal_secondary")
    @@ ("_Color_Metal_Dark" :> "color_metal_dark")
    @@ ("_Color_Leather_Primary" :> "color_leather_primary")
    @@ ("_Color_Leather_Secondary" :> "color_leather_secondary")
    @@ ("_Color_Skin" :> "color_skin")
    @@ ("_Color_Hair" :> "color_hair")
    @@ ("_Color_Eyes" :> "color_eyes")
    @@ ("_Color_Stubble" :> "color_stubble")
    @@ ("_Color_Scar" :> "color_scar")
    @@ ("_Color_BodyArt" :> "color_bodyart")

COLOR_MAP_CRYSTAL ==
       ("_Base_Color" :> "base_color")
    @@ ("_Base_Color_Multiplier" :> "base_color")
    @@ ("_Top_Color_Multiplier" :> "top_color")
    @@ ("_Deep_Color" :> "deep_color")
    @@ ("_Shallow_Color" :> "shallow_color")
    @@ ("_Fresnel_Color" :> "fresnel_color")
    @@ ("_Refraction_Color" :> "refraction_color")

COLOR_MAP_WATER ==
       ("_Shallow_Color" :> "shallow_color")
    @@ ("_Deep_Color" :> "deep_color")
    @@ ("_Very_Deep_Color" :> "very_deep_color")
    @@ ("_ShallowColour" :> "shallow_color")
    @@ ("_DeepColour" :> "deep_color")
    @@ ("_VeryDeepColour" :> "very_deep_color")
    @@ ("_Foam_Color" :> "foam_color")
    @@ ("_Caustics_Color" :> "caustics_color")
    @@ ("_CausticColour" :> "caustics_color")
    @@ ("_Shore_Foam_Color_Tint" :> "shore_foam_color_tint")
    @@ ("_Shore_Wave_Color_Tint" :> "shore_wave_color_tint")
    @@ ("_FoamEmitColour" :> "shore_foam_color_tint")
    @@ ("_DepthGlowColour" :> "very_deep_color")
    @@ ("_Color" :> "color_tint")
    @@ ("_Color_Tint" :> "color_tint")
    @@ ("_BaseColor" :> "color_tint")
    @@ ("_WaterDeepColor" :> "deep_color")
    @@ ("_WaterShallowColor" :> "shallow_color")
    @@ ("_Water_Deep_Color" :> "deep_color")
    @@ ("_Water_Shallow_Color" :> "shallow_color")
    @@ ("_Water_Near_Color" :> "shallow_color")
    @@ ("_Water_Far_Color" :> "deep_color")
    @@ ("_WaterColour" :> "water_color")
    @@ ("_FresnelColour" :> "fresnel_color")

COLOR_MAP_PARTICLES ==
       ("_Base_Color" :> "base_color")
    @@ ("_Color" :> "base_color")
    @@ ("_Color_Tint" :> "base_color")
    @@ ("_BaseColor" :> "base_color")
    @@ ("_Fog_Color" :> "fog_color")
    @@ ("_EmissionColor" :> "emission_color")

COLOR_MAP_SKYDOME ==
       ("_Top_Color" :> "top_color")
    @@ ("_Bottom_Color" :> "bottom_color")

COLOR_MAP_CLOUDS ==
       ("_Top_Color" :> "top_color")
    @@ ("_Base_Color" :> "base_color")
    @@ ("_Fresnel_Color" :> "fresnel_color")
    @@ ("_Scattering_Color" :> "scattering_color")
    @@ ("_CloudColor" :> "top_color")
    @@ ("_Aurora_Color_01" :> "aurora_color_01")
    @@ ("_Aurora_Color_02" :> "aurora_color_02")

COLOR_MAPS ==
       ("foliage.gdshader" :> COLOR_MAP_FOLIAGE)
    @@ ("polygon.gdshader" :> COLOR_MAP_POLYGON)
    @@ ("crystal.gdshader" :> COLOR_MAP_CRYSTAL)
    @@ ("water.gdshader" :> COLOR_MAP_WATER)
    @@ ("particles.gdshader" :> COLOR_MAP_PARTICLES)
    @@ ("skydome.gdshader" :> COLOR_MAP_SKYDOME)
    @@ ("clouds.gdshader" :> COLOR_MAP_CLOUDS)

SHADER_SPECIFIC_PROPERTIES ==
       ("foliage.gdshader" :>
         [textures |-> {"_Breeze_Noise_Map", "_Leaf_Ambient_Occlusion", "_Leaf_Normal", "_Leaf_Texture", "_Trunk_Ambient_Occlusion", "_Trunk_Normal", "_Trunk_Texture"},
          floats |-> {"_Breeze_Strength", "_LeafSmoothness", "_Leaf_Metallic", "_Leaf_Smoothness", "_Light_Wind_Strength", "_Strong_Wind_Strength", "_TrunkSmoothness", "_Trunk_Metallic", "_Trunk_Smoothness"},
          colors |-> {"_Leaf_Base_Color", "_Trunk_Base_Color"}])
    @@ ("crystal.gdshader" :>
         [textures |-> {"_Base_Albedo", "_Base_Normal", "_Refraction_Height", "_Refraction_Texture", "_Top_Albedo", "_Top_Normal"},
          floats |-> {"_Deep_Depth", "_Enable_Fresnel", "_Enable_Refraction", "_Fresnel_Power", "_Refraction_Strength", "_Shallow_Depth"},
          colors |-> {"_Deep_Color", "_Fresnel_Color", "_Refraction_Color", "_Shallow_Color"}])
    @@ ("water.gdshader" :>
         [textures |-> {"_Caustics_Flipbook", "_Foam_Noise_Texture", "_Foam_Texture", "_Scrolling_Texture", "_Shore_Foam_Noise_Texture", "_Water_Normal_Texture"},
          floats |-> {"_Base_Opacity", "_Caustics_Intensity", "_Maximum_Depth", "_Ocean_Wave_Height", "_Shallows_Opacity", "_Shore_Foam_Intensity", "_Shore_Wave_Speed"},
          colors |-> {"_Caustics_Color", "_Deep_Color", "_Foam_Color", "_Shallow_Color", "_Very_Deep_Color"}])
    @@ ("particles.gdshader" :>
         [textures |-> {},
          floats |-> {"_Camera_Fade_Far", "_Camera_Fade_Near", "_Fog_Density", "_Soft_Distance", "_Soft_Power", "_View_Edge_Power"},
          colors |-> {"_Fog_Color"}])
    @@ ("skydome.gdshader" :>
         [textures |-> {},
          floats |-> {"_Distance", "_Falloff", "_Offset"},
          colors |-> {"_Bottom_Color", "_Top_Color"}])
    @@ ("clouds.gdshader" :>
         [textures |-> {},
          floats |-> {"_CloudCoverage", "_Cloud_Speed", "_Cloud_Strength", "_Light_Intensity", "_Scattering_Multiplier"},
          colors |-> {"_Aurora_Color_01", "_Aurora_Color_02", "_Scattering_Color"}])

ALPHA_FIX_PROPERTIES ==
    {
      "_Base_Color", "_Base_Color_Multiplier", "_Top_Color_Multiplier", "_Deep_Color",
      "_Shallow_Color", "_Fresnel_Color", "_Refraction_Color", "_Water_Deep_Color",
      "_Water_Shallow_Color", "_Water_Near_Color", "_Water_Far_Color", "_Foam_Color",
      "_Caustics_Color", "_CausticColour", "_Shore_Foam_Color_Tint",
      "_Shore_Wave_Color_Tint", "_WaterDeepColor", "_WaterShallowColor", "_WaterColour",
      "_FresnelColour", "_Very_Deep_Color", "_ShallowColour", "_DeepColour",
      "_VeryDeepColour", "_FoamEmitColour", "_DepthGlowColour", "_Leaf_Base_Color",
      "_Trunk_Base_Color", "_Emissive_Color", "_Emissive_2_Color",
      "_Trunk_Emissive_Color", "_Frosting_Color", "_Neon_Colour_01", "_Neon_Colour_02",
      "_Glow_Colour", "_Glow_Tint", "_RimColor", "_Hologram_Color", "_BloodColor",
      "_Blood_Color", "_Dust_Colour", "_Color", "_BaseColor", "_BaseColour",
      "_Color_Tint", "_ColorTint", "_Hair_Color", "_Skin_Color", "_Snow_Color",
      "_Emission_Color", "_EmissionColor", "_Liquid_Color", "_Top_Color",
      "_Bottom_Color", "_Scattering_Color", "_Aurora_Color_01", "_Aurora_Color_02",
      "_Color_Primary", "_Color_Secondary", "_Color_Tertiary", "_Color_Metal_Primary",
      "_Color_Metal_Secondary", "_Color_Metal_Dark", "_Color_Leather_Primary",
      "_Color_Leather_Secondary", "_Color_Skin", "_Color_Hair", "_Color_Eyes",
      "_Color_Stubble", "_Color_Scar", "_Color_BodyArt", "_Leaf_Noise_Color",
      "_Trunk_Noise_Color"
    }

BOOLEAN_FLOAT_PROPERTIES ==
    {
      "_Enable_Breeze", "_Enable_Light_Wind", "_Enable_Strong_Wind",
      "_Enable_Wind_Twist", "_Enable_Frosting", "_Wind_Enabled", "_Leaves_Wave",
      "_Tree_Wave", "_Enable_Fresnel", "_Enable_Side_Fresnel", "_Enable_Depth",
      "_Enable_Refraction", "_Enable_Triplanar", "_Enable_Triplanar_Texture",
      "_Enable_Snow", "_Enable_Emission", "_Enable_Normals", "_AlphaClip",
      "_Enable_Hologram", "_Enable_Ghost", "_Use_Metallic_Map",
      "_Use_Weather_Controller", "_Use_Vertex_Color_Wind",
      "_Randomize_Flipbook_From_Location", "_Enable_UV_Distortion",
      "_Enable_Brightness_Breakup", "_Enable_Wave", "_Enable_Detail_Map",
      "_Enable_Parallax", "_Enable_AO", "_Enable_Shore_Wave_Foam", "_Enable_Shore_Foam",
      "_Enable_Shore_Waves", "_Enable_Ocean_Waves", "_Enable_Ocean_Wave",
      "_Enable_Caustics", "_Enable_Distortion", "_VertexOffset_Toggle",
      "_Enable_Soft_Particles", "_Enable_Camera_Fade", "_Enable_Scene_Fog",
      "_Enable_UV_Based", "_Use_Environment_Override", "_Enable_Fog", "_Enable_Scattering"
    }

SHADER_DEFAULTS ==
       ("crystal.gdshader" :>
         (("opacity" :> [kind |-> "float", value |-> 70])))
    @@ ("foliage.gdshader" :>
         (("leaf_smoothness" :> [kind |-> "float", value |-> 10]) @@ ("trunk_smoothness" :> [kind |-> "float", value |-> 15]) @@ ("leaf_metallic" :> [kind |-> "float", value |-> 0]) @@ ("trunk_metallic" :> [kind |-> "float", value |-> 0])))
    @@ ("water.gdshader" :>
         (("smoothness" :> [kind |-> "float", value |-> 95]) @@ ("metallic" :> [kind |-> "float", value |-> 0])))
    @@ ("polygon.gdshader" :>
         (("smoothness" :> [kind |-> "float", value |-> 50]) @@ ("metallic" :> [kind |-> "float", value |-> 0])))

DEFAULT_SHADER == "polygon.gdshader"

PROPERTY_SCORE == 10

SCORE_THRESHOLD == 20

(***************************************************************************)
(* Dict helpers                                                            *)
(***************************************************************************)

\* d.get(k, default) on a lookup table
Get(d, k, default) == IF k \in DOMAIN d THEN d[k] ELSE default

\* the keys of an insertion-ordered dict
Keys(od) == {od[i].k : i \in DOMAIN od}

\* the value od[k] of an insertion-ordered dict, default when k is absent
OGet(od, k, default) ==
    IF k \in Keys(od) THEN od[CHOOSE i \in DOMAIN od : od[i].k = k].v ELSE default

\* d[k] = v on a result dict
Put(d, k, v) == [x \in DOMAIN d \cup {k} |-> IF x = k THEN v ELSE d[x]]

EmptyDict == [x \in {} |-> 0]

(***************************************************************************)
(* re.search of a (?i) pattern of SHADER_NAME_PATTERNS_SCORED              *)
(***************************************************************************)

UpperToLower ==
       ("A" :> "a") @@ ("B" :> "b") @@ ("C" :> "c") @@ ("D" :> "d") @@ ("E" :> "e")
    @@ ("F" :> "f") @@ ("G" :> "g") @@ ("H" :> "h") @@ ("I" :> "i") @@ ("J" :> "j")
    @@ ("K" :> "k") @@ ("L" :> "l") @@ ("M" :> "m") @@ ("N" :> "n") @@ ("O" :> "o")
    @@ ("P" :> "p") @@ ("Q" :> "q") @@ ("R" :> "r") @@ ("S" :> "s") @@ ("T" :> "t")
    @@ ("U" :> "u") @@ ("V" :> "v") @@ ("W" :> "w") @@ ("X" :> "x") @@ ("Y" :> "y")
    @@ ("Z" :> "z")

IsUpper(c) == c \in DOMAIN UpperToLower

\* str.lower(), and the case folding (?i) applies to the searched text
RECURSIVE Lower(_)
Lower(s) ==
    IF s = "" THEN ""
    ELSE LET c == SubSeq(s, 1, 1)
         IN (IF IsUpper(c) THEN UpperToLower[c] ELSE c) \o Lower(SubSeq(s, 2, Len(s)))

\* the literal lit occurs in text at position i
OccursAt(text, lit, i) ==
    /\ i >= 1
    /\ i + Len(lit) - 1 <= Len(text)
    /\ SubSeq(text, i, i + Len(lit) - 1) = lit

Contains(text, lit) == \E i \in 1..Len(text) : OccursAt(text, lit, i)

\* pre.?post : pre, at most one arbitrary character, post
ContainsOpt(text, pre, post) ==
    \E i \in 1..Len(text) :
        /\ OccursAt(text, pre, i)
        /\ \/ OccursAt(text, post, i + Len(pre))
           \/ OccursAt(text, post, i + Len(pre) + 1)

\* pattern.search(material_name) for one rule; lowered is Lower(material_name)
pattern_search(rule, lowered) ==
    \/ \E lit \in rule.alts : Contains(lowered, lit)
    \/ \E o \in rule.opt : ContainsOpt(lowered, o[1], o[2])

(***************************************************************************)
(* Inputs: the materials the operations are applied to                     *)
(***************************************************************************)

MaxNameTokens == 3

MaxClassifyProps == 2

MaxProps == 2

\* words the names given to the classifier are built from, joined by "_"
NameTokens == {"Crystal", "Leaves", "Dirt", "Triplanar", "Effect", "01"}

RECURSIVE JoinTokens(_)
JoinTokens(ts) ==
    IF Len(ts) = 1 THEN ts[1] ELSE ts[1] \o "_" \o JoinTokens(Tail(ts))

Names == {JoinTokens(ts) : ts \in UNION {[1..n -> NameTokens] : n \in 1..MaxNameTokens}}

\* m_Shader.guid values: none, PolygonLit, Synty Crystal, Synty Foliage
ClassifyGuids ==
    { "",
      "0730dae39bc73f34796280af9875ce14",
      "5808064c5204e554c89f589a7059c558",
      "9b98a126c8d4d7a4baeb81b16e4f7b97" }

\* float and color properties a classified material may carry
ClassifyPool ==
    << [kind |-> "float", k |-> "_Soft_Power", v |-> 100],
       [kind |-> "float", k |-> "_Opacity", v |-> 100],
       [kind |-> "float", k |-> "_Fresnel_Power", v |-> 250],
       [kind |-> "color", k |-> "_Top_Color", v |-> [r |-> 50, g |-> 30, b |-> 20, a |-> 100]],
       [kind |-> "color", k |-> "_Bottom_Color", v |-> [r |-> 50, g |-> 30, b |-> 20, a |-> 100]] >>

\* names of the materials given to map_material
MapNames == {"Crystal_Gem_01", "Mat_01", "Water_Bucket"}

\* m_Shader.guid values: none, PolygonLit, Synty Crystal, a shader that
\* SHADER_GUID_MAP does not list
MapGuids ==
    { "",
      "0730dae39bc73f34796280af9875ce14",
      "5808064c5204e554c89f589a7059c558",
      "00000000000000000000000000000001" }

\* Color(0.5, 0.3, 0.2, 0.0), Color(0, 0, 0, 0), Color(0.5, 0.3, 0.2, 0.3)
ColorRgbNoAlpha == [r |-> 50, g |-> 30, b |-> 20, a |-> 0]

ColorAllZero == [r |-> 0, g |-> 0, b |-> 0, a |-> 0]

ColorTranslucent == [r |-> 50, g |-> 30, b |-> 20, a |-> 30]

\* texture, float and color properties a mapped material may carry
MapPool ==
    << [kind |-> "float", k |-> "_Opacity", v |-> 100],
       [kind |-> "float", k |-> "_Fresnel_Power", v |-> 250],
       [kind |-> "float", k |-> "_Enable_Snow", v |-> 0],
       [kind |-> "float", k |-> "_Enable_Snow", v |-> 100],
       [kind |-> "float", k |-> "_Mode", v |-> 50],
       [kind |-> "float", k |-> "_Mode", v |-> 200],
       [kind |-> "float", k |-> "_Smoothness", v |-> 0],
       [kind |-> "color", k |-> "_Color", v |-> ColorRgbNoAlpha],
       [kind |-> "color", k |-> "_Color", v |-> ColorAllZero],
       [kind |-> "color", k |-> "_Color", v |-> ColorTranslucent],
       [kind |-> "color", k |-> "_Deep_Color", v |-> ColorRgbNoAlpha],
       [kind |-> "color", k |-> "_Deep_Color", v |-> ColorAllZero],
       [kind |-> "color", k |-> "_Deep_Color", v |-> ColorTranslucent],
       [kind |-> "color", k |-> "_Fog_Color", v |-> ColorRgbNoAlpha],
       [kind |-> "color", k |-> "_Fog_Color", v |-> ColorAllZero],
       [kind |-> "color", k |-> "_Fog_Color", v |-> ColorTranslucent],
       [kind |-> "texture", k |-> "_MainTex", v |-> [guid |-> "aaaa0000aaaa0000aaaa0000aaaa0000"]],
       [kind |-> "texture", k |-> "_MainTex", v |-> [guid |-> "ffff0000ffff0000ffff0000ffff0000"]],
       [kind |-> "texture", k |-> "_Base_Albedo", v |-> [guid |-> "bbbb0000bbbb0000bbbb0000bbbb0000"]],
       [kind |-> "texture", k |-> "_Base_Albedo", v |-> [guid |-> "ffff0000ffff0000ffff0000ffff0000"]] >>

\* texture GUID -> file name maps: the GUIDs aaaa... and bbbb... resolve,
\* ffff... does not
Resolvers ==
    { ("aaaa0000aaaa0000aaaa0000aaaa0000" :> "Texture_01")
        @@ ("bbbb0000bbbb0000bbbb0000bbbb0000" :> "Texture_02") }

\* override_shader arguments: absent, or the shader cached for the material
Overrides == {None, "polygon.gdshader", "crystal.gdshader", "particles.gdshader"}

\* the selections of at most n pool entries, in pool order, one entry per property
Selections(pool, n) ==
    { idx \in UNION {[1..m -> 1..Len(pool)] : m \in 0..n} :
        \A i, j \in DOMAIN idx :
            i < j => /\ idx[i] < idx[j]
                     /\ ~(pool[idx[i]].kind = pool[idx[j]].kind /\ pool[idx[i]].k = pool[idx[j]].k) }

\* the insertion-ordered dict of the selected entries of one kind
RECURSIVE DictOf(_, _, _, _)
DictOf(pool, idx, kind, i) ==
    IF i > Len(idx) THEN <<>>
    ELSE LET e == pool[idx[i]]
         IN (IF e.kind = kind THEN <<[k |-> e.k, v |-> e.v]>> ELSE <<>>)
            \o DictOf(pool, idx, kind, i + 1)

\* a UnityMaterial
MaterialOf(name, guid, pool, idx) ==
    [ name |-> name,
      shader_guid |-> guid,
      tex_envs |-> DictOf(pool, idx, "texture", 1),
      floats |-> DictOf(pool, idx, "float", 1),
      colors |-> DictOf(pool, idx, "color", 1) ]

ClassifyMaterials ==
    { MaterialOf(name, guid, ClassifyPool, idx) :
        name \in Names, guid \in ClassifyGuids,
        idx \in Selections(ClassifyPool, MaxClassifyProps) }

\* most properties of a material classified for its ties
MaxTieProps == 4

\* names of the materials classified for their ties: no rule matches, the
\* crystal rule and the water rule match with 45 each
TieNames == {"01", "Crystal_Ocean", "Ocean_Crystal"}

\* two diagnostic properties each of particles, skydome and crystal
TiePool ==
    << [kind |-> "float", k |-> "_Soft_Power", v |-> 100],
       [kind |-> "float", k |-> "_Soft_Distance", v |-> 100],
       [kind |-> "float", k |-> "_Falloff", v |-> 100],
       [kind |-> "float", k |-> "_Opacity", v |-> 100],
       [kind |-> "float", k |-> "_Fresnel_Power", v |-> 250],
       [kind |-> "color", k |-> "_Top_Color", v |-> [r |-> 50, g |-> 30, b |-> 20, a |-> 100]] >>

TieMaterials ==
    { MaterialOf(name, guid, TiePool, idx) :
        name \in TieNames, guid \in ClassifyGuids,
        idx \in Selections(TiePool, MaxTieProps) }

MapMaterials ==
    { MaterialOf(name, guid, MapPool, idx) :
        name \in MapNames, guid \in MapGuids,
        idx \in Selections(MapPool, MaxProps) }

\* the most slots a MaterialList holds
MaxManifestSlots == 3

\* material names of the slots: crystal by name, and two that no pattern matches
CacheNames == {"Crystal_Gem", "Mat_A", "Mat_B"}

\* the slot lines of a MaterialList: a slot opens a new prefab and its first
\* mesh ("prefab"), a further mesh of the prefab ("mesh"), or follows the slot
\* before it in the same mesh ("slot")
SlotLines ==
    [ brk : {"prefab", "mesh", "slot"},
      material_name : CacheNames,
      uses_custom_shader : BOOLEAN ]

\* MaterialSlot(material_name, texture_name, uses_custom_shader)
MaterialSlot(line) ==
    [material_name |-> line.material_name, uses_custom_shader |-> line.uses_custom_shader]

\* the prefabs with one more slot line read
AddSlotLine(ps, line) ==
    LET slot == MaterialSlot(line)
        last == ps[Len(ps)]
        mesh == last.meshes[Len(last.meshes)]
    IN IF line.brk = "prefab"
       THEN Append(ps, [meshes |-> << [slots |-> <<slot>>] >>])
       ELSE IF line.brk = "mesh"
       THEN [ps EXCEPT ![Len(ps)].meshes = Append(@, [slots |-> <<slot>>])]
       ELSE [ps EXCEPT ![Len(ps)].meshes[Len(last.meshes)].slots = Append(@, slot)]

\* list[PrefabMaterials] of a sequence of slot lines
RECURSIVE PrefabsOf(_, _, _)
PrefabsOf(lines, i, ps) ==
    IF i > Len(lines) THEN ps ELSE PrefabsOf(lines, i + 1, AddSlotLine(ps, lines[i]))

\* the prefab lists given to build_shader_cache
Manifests ==
    { PrefabsOf(lines, 1, <<>>) :
        lines \in { ls \in UNION {[1..n -> SlotLines] : n \in 0..MaxManifestSlots} :
                      ls # <<>> => ls[1].brk = "prefab" } }

\* pattern.search of every rule on every name above, computed once per name:
\* the indices of the rules of SHADER_NAME_PATTERNS_SCORED that match
SearchMemo ==
    [n \in Names \cup MapNames \cup CacheNames \cup TieNames |->
        {i \in DOMAIN SHADER_NAME_PATTERNS_SCORED :
            pattern_search(SHADER_NAME_PATTERNS_SCORED[i], Lower(n))}] @@ <<>>

\* pattern.search(material_name) for rule i of SHADER_NAME_PATTERNS_SCORED
RuleMatches(i, material_name) ==
    IF material_name \in DOMAIN SearchMemo
    THEN i \in SearchMemo[material_name]
    ELSE pattern_search(SHADER_NAME_PATTERNS_SCORED[i], Lower(material_name))

(***************************************************************************)
(* detect_shader_type                                                      *)
(***************************************************************************)

\* variant: the last matching rule of a target replaces what the target held
ScoreAdd_Overwrite(shader_scores, sh, score) ==
    IF sh \in Keys(shader_scores)
    THEN [i \in DOMAIN shader_scores |->
            IF shader_scores[i].k = sh THEN [k |-> sh, v |-> score] ELSE shader_scores[i]]
    ELSE Append(shader_scores, [k |-> sh, v |-> score])

\* shader_scores[shader] = shader_scores.get(shader, 0) + score
ScoreAdd(shader_scores, sh, score) ==
    IF sh \in Keys(shader_scores)
    THEN [i \in DOMAIN shader_scores |->
            IF shader_scores[i].k = sh
            THEN [k |-> sh, v |-> shader_scores[i].v + score]
            ELSE shader_scores[i]]
    ELSE Append(shader_scores, [k |-> sh, v |-> score])

\* the loop over SHADER_NAME_PATTERNS_SCORED from rule i on
RECURSIVE NameScoresFrom(_, _, _)
NameScoresFrom(material_name, i, shader_scores) ==
    IF i > Len(SHADER_NAME_PATTERNS_SCORED) THEN shader_scores
    ELSE LET rule == SHADER_NAME_PATTERNS_SCORED[i]
         IN NameScoresFrom(material_name, i + 1,
                IF RuleMatches(i, material_name)
                THEN ScoreAdd(shader_scores, rule.shader, rule.score)
                ELSE shader_scores)

\* shader_scores after the loop over SHADER_NAME_PATTERNS_SCORED
NameScores(material_name) == NameScoresFrom(material_name, 1, <<>>)

water_float_props ==
    { "_Enable_Shore_Foam", "_Enable_Shore_Waves", "_Enable_Caustics",
      "_Enable_Ocean_Wave", "_Shore_Foam_Intensity", "_Water_Depth",
      "_Depth_Distance", "_Deep_Height", "_Shallow_Intensity",
      "_Shore_Wave_Speed", "_Ocean_Wave_Height", "_Ocean_Wave_Speed",
      "_Caustics_Intensity", "_Maximum_Depth", "_Base_Opacity",
      "_Shallows_Opacity", "_Very_Deep_Height" }

water_color_props ==
    { "_Water_Deep_Color", "_Water_Shallow_Color", "_Foam_Color",
      "_Shore_Wave_Color_Tint", "_Shore_Foam_Color_Tint", "_Caustics_Color" }

foliage_float_props ==
    { "_Enable_Breeze", "_Breeze_Strength", "_Enable_Light_Wind",
      "_Light_Wind_Strength", "_Enable_Strong_Wind", "_Strong_Wind_Strength",
      "_Wind_Enabled", "_Leaf_Metallic", "_Leaf_Smoothness",
      "_Trunk_Metallic", "_Trunk_Smoothness", "_Frosting_Falloff",
      "_Frosting_Height", "_Wind_Twist_Strength", "_Gale_Blend",
      "_Light_Wind_Y_Strength", "_Light_Wind_Y_Offset" }

foliage_color_props ==
    { "_Leaf_Base_Color", "_Trunk_Base_Color", "_Leaf_Noise_Color",
      "_Trunk_Noise_Color", "_Frosting_Color", "_Trunk_Emissive_Color" }

clouds_float_props ==
    { "_Cloud_Speed", "_Cloud_Strength", "_Scattering_Multiplier",
      "_Scattering_Edge_Dist", "_Light_Intensity", "_Fog_Density" }

clouds_color_props == { "_Scattering_Color" }

particles_float_props ==
    { "_Soft_Power", "_Soft_Distance", "_Enable_Soft_Particles",
      "_Camera_Fade_Near", "_Camera_Fade_Far", "_Camera_Fade_Smoothness",
      "_View_Edge_Power", "_Enable_Camera_Fade" }

skydome_float_props == { "_Falloff", "_Offset", "_Distance" }

skydome_color_props == { "_Top_Color", "_Bottom_Color" }

crystal_float_props ==
    { "_Enable_Fresnel", "_Enable_Depth", "_Enable_Refraction",
      "_Fresnel_Power", "_Refraction_Strength", "_Opacity",
      "_Deep_Depth", "_Shallow_Depth" }

crystal_color_props == { "_Fresnel_Color", "_Refraction_Color" }

\* sum(1 for p in float_props if p in floats) + sum(1 for p in color_props if p in colors)
CountProps(float_props, color_props, floats, colors) ==
    Cardinality(float_props \cap Keys(floats)) + Cardinality(color_props \cap Keys(colors))

\* variant: a target with properties present gets 10 points, however many
AddPropertyScore_Flat(shader_scores, sh, props) ==
    IF props > 0 THEN ScoreAdd(shader_scores, sh, PROPERTY_SCORE) ELSE shader_scores

\* if props > 0: shader_scores[sh] = shader_scores.get(sh, 0) + props * PROPERTY_SCORE
AddPropertyScore(shader_scores, sh, props) ==
    IF props > 0 THEN ScoreAdd(shader_scores, sh, props * PROPERTY_SCORE) ELSE shader_scores

\* the skydome count, with its bonus for having both gradient colors
skydome_props(floats, colors) ==
    CountProps(skydome_float_props, skydome_color_props, floats, colors)
    + (IF "_Top_Color" \in Keys(colors) /\ "_Bottom_Color" \in Keys(colors) THEN 2 ELSE 0)

\* the body of `if floats or colors:`
PropertyScores(shader_scores, floats, colors) ==
    LET s1 == AddPropertyScore(shader_scores, "water.gdshader",
                  CountProps(water_float_props, water_color_props, floats, colors))
        s2 == AddPropertyScore(s1, "foliage.gdshader",
                  CountProps(foliage_float_props, foliage_color_props, floats, colors))
        s3 == AddPropertyScore(s2, "clouds.gdshader",
                  CountProps(clouds_float_props, clouds_color_props, floats, colors))
        s4 == AddPropertyScore(s3, "particles.gdshader",
                  CountProps(particles_float_props, {}, floats, colors))
        s5 == AddPropertyScore(s4, "skydome.gdshader", skydome_props(floats, colors))
    IN AddPropertyScore(s5, "crystal.gdshader",
                  CountProps(crystal_float_props, crystal_color_props, floats, colors))

\* shader_scores after the name tier and the property tier
ShaderScores(material_name, floats, colors) ==
    IF floats # <<>> \/ colors # <<>>
    THEN PropertyScores(NameScores(material_name), floats, colors)
    ELSE NameScores(material_name)

\* variant: the last key holding the largest value
best_shader_Last(shader_scores) ==
    LET i == CHOOSE i \in DOMAIN shader_scores :
                /\ \A j \in DOMAIN shader_scores : shader_scores[j].v <= shader_scores[i].v
                /\ \A j \in (i + 1)..Len(shader_scores) : shader_scores[j].v < shader_scores[i].v
    IN shader_scores[i]

\* max(shader_scores, key=shader_scores.get): the first key holding the largest value
best_shader(shader_scores) ==
    LET i == CHOOSE i \in DOMAIN shader_scores :
                /\ \A j \in DOMAIN shader_scores : shader_scores[j].v <= shader_scores[i].v
                /\ \A j \in 1..(i - 1) : shader_scores[j].v < shader_scores[i].v
    IN shader_scores[i]

\* variant: a GUID the map does not list is handed on as the shader
guid_shader_PassThrough(shader_guid) == Get(SHADER_GUID_MAP, shader_guid, shader_guid)

\* guid_shader = SHADER_GUID_MAP.get(shader_guid)
guid_shader(shader_guid) == Get(SHADER_GUID_MAP, shader_guid, None)

\* variant: the GUID is only the fallback of the scoring tiers
GuidShortCircuit_Never(gs) == FALSE

\* the GUID tier returns at once
GuidShortCircuit(gs) == Truthy(gs) /\ gs # DEFAULT_SHADER

\* variant: the best score is used whatever it is
ScoreSelects_NoThreshold(shader_scores) == shader_scores # <<>>

\* the scoring result is used
ScoreSelects(shader_scores) ==
    shader_scores # <<>> /\ best_shader(shader_scores).v >= SCORE_THRESHOLD

detect_shader_type(shader_guid, material_name, floats, colors) ==
    LET gs == guid_shader(shader_guid)
        shader_scores == ShaderScores(material_name, floats, colors)
    IN IF GuidShortCircuit(gs) THEN gs
       ELSE IF ScoreSelects(shader_scores) THEN best_shader(shader_scores).k
       ELSE IF Truthy(gs) THEN gs
       ELSE DEFAULT_SHADER

(***************************************************************************)
(* Property conversion helpers                                             *)
(***************************************************************************)

\* Color.has_rgb
has_rgb(color) == color.r # 0 \/ color.g # 0 \/ color.b # 0

\* variant: the alpha fix without the `_Mode` check
fix_alpha_zero_IgnoresMode(color, property_name, floats) ==
    IF property_name \in ALPHA_FIX_PROPERTIES /\ color.a = 0 /\ has_rgb(color)
    THEN [r |-> color.r, g |-> color.g, b |-> color.b, a |-> 100]
    ELSE color

\* _fix_alpha_zero(color, property_name, floats)
fix_alpha_zero(color, property_name, floats) ==
    IF OGet(floats, "_Mode", 0) >= 100 THEN color
    ELSE IF property_name \in ALPHA_FIX_PROPERTIES /\ color.a = 0 /\ has_rgb(color)
         THEN [r |-> color.r, g |-> color.g, b |-> color.b, a |-> 100]
         ELSE color

\* variant: the fix is written into the Color passed in
ColorPassedAfterFix_InPlace(color, property_name, floats) ==
    fix_alpha_zero(color, property_name, floats)

\* the Color passed to _fix_alpha_zero once it has returned: the fix is
\* returned in a new Color, no attribute of the argument is assigned
ColorPassedAfterFix(color, property_name, floats) == color

\* unity_name.lstrip("_")
RECURSIVE LStripUnderscores(_)
LStripUnderscores(s) ==
    IF s # "" /\ SubSeq(s, 1, 1) = "_" THEN LStripUnderscores(SubSeq(s, 2, Len(s))) ELSE s

\* re.sub(r'(?<!^)(?=[A-Z])', '_', name): "_" before every capital but a leading one
RECURSIVE InsertUnderscores(_, _)
InsertUnderscores(name, i) ==
    IF i > Len(name) THEN ""
    ELSE LET c == SubSeq(name, i, i)
         IN (IF i > 1 /\ IsUpper(c) THEN "_" ELSE "") \o c \o InsertUnderscores(name, i + 1)

\* re.sub(r'_+', '_', result)
RECURSIVE CollapseUnderscores(_)
CollapseUnderscores(s) ==
    IF Len(s) <= 1 THEN s
    ELSE IF SubSeq(s, 1, 2) = "__" THEN CollapseUnderscores(SubSeq(s, 2, Len(s)))
    ELSE SubSeq(s, 1, 1) \o CollapseUnderscores(SubSeq(s, 2, Len(s)))

\* _unity_to_godot_name(unity_name)
unity_to_godot_name(unity_name) ==
    CollapseUnderscores(Lower(InsertUnderscores(LStripUnderscores(unity_name), 1)))

\* variant: an unmapped boolean float keeps its Unity name
BoolName_KeepsUnityName(unity_name, float_map) ==
    IF unity_name \in DOMAIN float_map THEN float_map[unity_name] ELSE unity_name

\* the Godot name of a boolean float: float_map.get(unity_name), else derived
BoolName(unity_name, float_map) ==
    IF unity_name \in DOMAIN float_map THEN float_map[unity_name]
    ELSE unity_to_godot_name(unity_name)

\* the loop of _convert_boolean_floats from entry i on
RECURSIVE ConvertFrom(_, _, _, _, _)
ConvertFrom(floats, float_map, i, remaining_floats, extracted_bools) ==
    IF i > Len(floats)
    THEN [floats |-> remaining_floats, bools |-> extracted_bools]
    ELSE LET unity_name == floats[i].k
             value == floats[i].v
         IN IF unity_name \in BOOLEAN_FLOAT_PROPERTIES
            THEN ConvertFrom(floats, float_map, i + 1, remaining_floats,
                     Put(extracted_bools, BoolName(unity_name, float_map), value # 0))
            ELSE IF unity_name \in DOMAIN float_map
            THEN ConvertFrom(floats, float_map, i + 1,
                     Put(remaining_floats, float_map[unity_name], value), extracted_bools)
            ELSE ConvertFrom(floats, float_map, i + 1, remaining_floats, extracted_bools)

\* _convert_boolean_floats(floats, float_map)
convert_boolean_floats(floats, float_map) ==
    ConvertFrom(floats, float_map, 1, EmptyDict, EmptyDict)

\* variant: the defaults are written over the mapped values
DefaultsInto_Overwrite(mapped, defaults, kind) ==
    LET named == {p \in DOMAIN defaults : defaults[p].kind = kind}
    IN [p \in DOMAIN mapped \cup named |->
            IF p \in named THEN defaults[p].value ELSE mapped[p]]

\* one dict of _apply_defaults: the defaults of one kind are added to the
\* entries of mapped where their name is absent
DefaultsInto(mapped, defaults, kind) ==
    LET missing == {p \in DOMAIN defaults : defaults[p].kind = kind /\ p \notin DOMAIN mapped}
    IN [p \in DOMAIN mapped \cup missing |->
            IF p \in DOMAIN mapped THEN mapped[p] ELSE defaults[p].value]

\* _apply_defaults(material)
apply_defaults(mat) ==
    LET defaults == Get(SHADER_DEFAULTS, mat.shader_file, EmptyDict)
    IN [mat EXCEPT !.bools = DefaultsInto(mat.bools, defaults, "bool"),
                   !.floats = DefaultsInto(mat.floats, defaults, "float")]

\* variant: every shader is taken as justified
validate_shader_properties_Always(shader_file, m) == TRUE

\* validate_shader_properties(shader_file, material)
validate_shader_properties(shader_file, m) ==
    IF shader_file = "polygon.gdshader" THEN TRUE
    ELSE IF shader_file \notin DOMAIN SHADER_SPECIFIC_PROPERTIES THEN TRUE
    ELSE LET specific == SHADER_SPECIFIC_PROPERTIES[shader_file]
         IN \/ \E tex_name \in Keys(m.tex_envs) : tex_name \in specific.textures
            \/ \E float_name \in Keys(m.floats) : float_name \in specific.floats
            \/ \E color_name \in Keys(m.colors) : color_name \in specific.colors

(***************************************************************************)
(* map_material                                                            *)
(***************************************************************************)

\* variant: {**shader_map, **polygon_map}
MergeUnder_PolygonWins(polygon_map, shader_map) == polygon_map @@ shader_map

\* {**polygon_map, **shader_map}
MergeUnder(polygon_map, shader_map) == shader_map @@ polygon_map

\* Step 2: the property maps of the shader, polygon maps merged underneath
PropertyMaps(shader_file) ==
    LET texture_map == Get(TEXTURE_MAPS, shader_file, EmptyDict)
        float_map == Get(FLOAT_MAPS, shader_file, EmptyDict)
        color_map == Get(COLOR_MAPS, shader_file, EmptyDict)
    IN IF shader_file # "polygon.gdshader"
       THEN [ texture_map |-> MergeUnder(TEXTURE_MAP_POLYGON, texture_map),
              float_map |-> MergeUnder(FLOAT_MAP_POLYGON, float_map),
              color_map |-> MergeUnder(COLOR_MAP_POLYGON, color_map) ]
       ELSE [ texture_map |-> texture_map, float_map |-> float_map, color_map |-> color_map ]

\* variant: a texture is written whether or not its GUID resolved
TextureResolved_Always(texture_name) == TRUE

\* `if texture_name:` on texture_guid_map.get(tex_ref.guid)
TextureResolved(texture_name) == Truthy(texture_name)

\* Step 3: the loop over material.tex_envs from entry i on
RECURSIVE MapTexturesFrom(_, _, _, _, _)
MapTexturesFrom(tex_envs, texture_map, guid_map, i, mapped_textures) ==
    IF i > Len(tex_envs) THEN mapped_textures
    ELSE LET unity_name == tex_envs[i].k
             texture_name == Get(guid_map, tex_envs[i].v.guid, None)
         IN MapTexturesFrom(tex_envs, texture_map, guid_map, i + 1,
                IF unity_name \in DOMAIN texture_map /\ TextureResolved(texture_name)
                THEN Put(mapped_textures, texture_map[unity_name], texture_name)
                ELSE mapped_textures)

\* Step 5: the loop over material.colors from entry i on
RECURSIVE MapColorsFrom(_, _, _, _, _)
MapColorsFrom(colors, color_map, floats, i, mapped_colors) ==
    IF i > Len(colors) THEN mapped_colors
    ELSE LET unity_name == colors[i].k
         IN MapColorsFrom(colors, color_map, floats, i + 1,
                IF unity_name \in DOMAIN color_map
                THEN Put(mapped_colors, color_map[unity_name],
                         fix_alpha_zero(colors[i].v, unity_name, floats))
                ELSE mapped_colors)

\* material.colors once step 5 has passed each mapped Color to _fix_alpha_zero
ColorsAfterStep5(colors, color_map, floats) ==
    [ i \in DOMAIN colors |->
        IF colors[i].k \in DOMAIN color_map
        THEN [k |-> colors[i].k, v |-> ColorPassedAfterFix(colors[i].v, colors[i].k, floats)]
        ELSE colors[i] ]

\* variant: step 2 merges with update() on the dict it got from the table
TablesAfterStep2_Update(tables, shader_file) ==
    [ kind \in DOMAIN tables |->
        IF shader_file # "polygon.gdshader" /\ shader_file \in DOMAIN tables[kind]
        THEN [tables[kind] EXCEPT ![shader_file] = MergeUnder(tables[kind]["polygon.gdshader"], @)]
        ELSE tables[kind] ]

\* the module-level tables once step 2 has merged: each {**polygon, **shader}
\* display is a new dict, neither operand is written
TablesAfterStep2(tables, shader_file) == tables

\* variant: the override is ignored
Step1Shader_AlwaysDetect(m, override) ==
    detect_shader_type(m.shader_guid, m.name, m.floats, m.colors)

\* Step 1: override_shader if given, else detect_shader_type
Step1Shader(m, override) ==
    IF Truthy(override) THEN override
    ELSE detect_shader_type(m.shader_guid, m.name, m.floats, m.colors)

\* variant: the shader of step 1 is used as it is
ValidatedShader_Unchecked(shader_file, m) == shader_file

\* the validation after step 1: fall back to polygon without shader-specific properties
ValidatedShader(shader_file, m) ==
    IF ~validate_shader_properties(shader_file, m) THEN DEFAULT_SHADER ELSE shader_file

\* steps 2 to 6 for the shader settled on
MapWithShader(m, guid_map, shader_file) ==
    LET maps == PropertyMaps(shader_file)
        converted == convert_boolean_floats(m.floats, maps.float_map)
    IN apply_defaults(
         [ name |-> m.name,
           shader_file |-> shader_file,
           textures |-> MapTexturesFrom(m.tex_envs, maps.texture_map, guid_map, 1, EmptyDict),
           floats |-> converted.floats,
           bools |-> converted.bools,
           colors |-> MapColorsFrom(m.colors, maps.color_map, m.floats, 1, EmptyDict) ])

\* variant: the defaults of the shader of step 1 are injected as well
map_material_DefaultsOfStep1(m, guid_map, override) ==
    LET first == Step1Shader(m, override)
        r == MapWithShader(m, guid_map, ValidatedShader(first, m))
    IN [apply_defaults([r EXCEPT !.shader_file = first]) EXCEPT !.shader_file = r.shader_file]

\* map_material(material, texture_guid_map, override_shader)
map_material(m, guid_map, override) ==
    MapWithShader(m, guid_map, ValidatedShader(Step1Shader(m, override), m))

(***************************************************************************)
(* detect_shader_from_name, determine_shader                               *)
(***************************************************************************)

\* variant: the best name score is used whatever it is
detect_shader_from_name_NoThreshold(name) ==
    LET shader_scores == NameScores(name)
    IN IF shader_scores # <<>> THEN best_shader(shader_scores).k ELSE None

\* variant: the best name score has to exceed the threshold
detect_shader_from_name_Strict(name) ==
    LET shader_scores == NameScores(name)
    IN IF shader_scores # <<>> /\ best_shader(shader_scores).v > SCORE_THRESHOLD
       THEN best_shader(shader_scores).k ELSE None

\* detect_shader_from_name(material_name): name patterns only
detect_shader_from_name(name) ==
    LET shader_scores == NameScores(name)
    IN IF ScoreSelects(shader_scores) THEN best_shader(shader_scores).k ELSE None

\* variant: the name patterns are tried whatever the flag
determine_shader_IgnoresFlag(name, custom) ==
    LET found == detect_shader_from_name(name)
    IN IF Truthy(found) THEN [shader |-> found, matched |-> TRUE]
       ELSE [shader |-> DEFAULT_SHADER, matched |-> FALSE]

\* determine_shader(material_name, uses_custom_shader)
determine_shader(name, custom) ==
    IF ~custom THEN [shader |-> DEFAULT_SHADER, matched |-> TRUE]
    ELSE LET found == detect_shader_from_name(name)
         IN IF Truthy(found) THEN [shader |-> found, matched |-> TRUE]
            ELSE [shader |-> DEFAULT_SHADER, matched |-> FALSE]

(***************************************************************************)
(* build_shader_cache                                                      *)
(*   Meshes and slots are numbered from 1: the first mesh of a prefab      *)
(*   (mesh_idx 0 in the code, "LOD0") is mesh 1, slot_idx 0 is slot 1.     *)
(***************************************************************************)

\* the slots of the prefabs, as <<prefab, mesh, slot>>
Positions(ps) ==
    UNION { UNION { { <<p, m, i>> : i \in DOMAIN ps[p].meshes[m].slots } :
                    m \in DOMAIN ps[p].meshes } :
            p \in DOMAIN ps }

\* a is visited before b by the three nested loops
Before(a, b) ==
    \/ a[1] < b[1]
    \/ a[1] = b[1] /\ a[2] < b[2]
    \/ a[1] = b[1] /\ a[2] = b[2] /\ a[3] < b[3]

\* the first of a set of slots in loop order, <<>> when there is none
FirstOf(S) ==
    IF S = {} THEN <<>> ELSE CHOOSE a \in S : \A b \in S : a = b \/ Before(a, b)

\* variant: the loops leave a mesh after one slot
NextPos_LeavesMesh(ps, cur) ==
    FirstOf({b \in Positions(ps) : b[1] > cur[1] \/ (b[1] = cur[1] /\ b[2] > cur[2])})

\* the slot the loops reach after slot cur
NextPos(ps, cur) == FirstOf({b \in Positions(ps) : Before(cur, b)})

\* the slot at a position
SlotAt(ps, at) == ps[at[1]].meshes[at[2]].slots[at[3]]

\* variant: the second mesh makes its own decisions too
is_lod0_FirstTwo(mesh_idx) == mesh_idx <= 2

\* variant: every mesh makes its own decisions
is_lod0_Always(mesh_idx) == TRUE

\* is_lod0 = mesh_idx == 0
is_lod0(mesh_idx) == mesh_idx = 1

\* variant: the cache is never consulted
AlreadyDecided_Never(mat_name, cache) == FALSE

\* if mat_name in shader_cache: continue
AlreadyDecided(mat_name, cache) == mat_name \in DOMAIN cache

\* variant: one dict serves all the prefabs
SlotShadersAfter_Kept(ps, cur, slot_shaders) == slot_shaders

\* prefab_slot_shaders when the loops move on from slot cur: a new dict at the
\* top of the next prefab
SlotShadersAfter(ps, cur, slot_shaders) ==
    LET nxt == NextPos(ps, cur)
    IN IF nxt # <<>> /\ nxt[1] # cur[1] THEN EmptyDict ELSE slot_shaders

\* variant: every classified name is reported
Reported_Always(unmatched, mat_name, d) == Append(unmatched, mat_name)

\* variant: the matched names are the ones reported
Reported_Matched(unmatched, mat_name, d) ==
    IF d.matched THEN Append(unmatched, mat_name) ELSE unmatched

\* variant: nothing is reported
Reported_Never(unmatched, mat_name, d) == unmatched

\* unmatched_materials after a call of determine_shader
Reported(unmatched, mat_name, d) ==
    IF ~d.matched THEN Append(unmatched, mat_name) ELSE unmatched

\* the slot's material is in the cache already: continue
SkipCached ==
    /\ pc = "building" /\ pos # <<>>
    /\ AlreadyDecided(SlotAt(prefabs, pos).material_name, shader_cache)
    /\ pos' = NextPos(prefabs, pos)
    /\ prefab_slot_shaders' = SlotShadersAfter(prefabs, pos, prefab_slot_shaders)
    /\ UNCHANGED <<pc, prefabs, shader_cache, unmatched_materials, classified>>
    /\ UNCHANGED <<materialVars, determineVars, parseVars>>

\* a slot of the first mesh: determine_shader decides, the decision is kept
\* for the slot index
DecideLOD0 ==
    /\ pc = "building" /\ pos # <<>>
    /\ LET slot == SlotAt(prefabs, pos)
           mat_name == slot.material_name
           d == determine_shader(mat_name, slot.uses_custom_shader)
       IN /\ ~AlreadyDecided(mat_name, shader_cache)
          /\ is_lod0(pos[2])
          /\ shader_cache' = Put(shader_cache, mat_name, d.shader)
          /\ prefab_slot_shaders' =
                SlotShadersAfter(prefabs, pos, Put(prefab_slot_shaders, pos[3], d.shader))
          /\ unmatched_materials' = Reported(unmatched_materials, mat_name, d)
          /\ classified' = Append(classified, mat_name)
    /\ pos' = NextPos(prefabs, pos)
    /\ UNCHANGED <<pc, prefabs>>
    /\ UNCHANGED <<materialVars, determineVars, parseVars>>

\* a slot of a later mesh whose index was decided at the first mesh: inherit
InheritLOD0 ==
    /\ pc = "building" /\ pos # <<>>
    /\ LET mat_name == SlotAt(prefabs, pos).material_name
       IN /\ ~AlreadyDecided(mat_name, shader_cache)
          /\ ~is_lod0(pos[2])
          /\ pos[3] \in DOMAIN prefab_slot_shaders
          /\ shader_cache' = Put(shader_cache, mat_name, prefab_slot_shaders[pos[3]])
    /\ prefab_slot_shaders' = SlotShadersAfter(prefabs, pos, prefab_slot_shaders)
    /\ pos' = NextPos(prefabs, pos)
    /\ UNCHANGED <<pc, prefabs, unmatched_materials, classified>>
    /\ UNCHANGED <<materialVars, determineVars, parseVars>>

\* a slot of a later mesh with no decision to inherit: determine_shader decides
DecideIrregular ==
    /\ pc = "building" /\ pos # <<>>
    /\ LET slot == SlotAt(prefabs, pos)
           mat_name == slot.material_name
           d == determine_shader(mat_name, slot.uses_custom_shader)
       IN /\ ~AlreadyDecided(mat_name, shader_cache)
          /\ ~is_lod0(pos[2])
          /\ pos[3] \notin DOMAIN prefab_slot_shaders
          /\ shader_cache' = Put(shader_cache, mat_name, d.shader)
          /\ unmatched_materials' = Reported(unmatched_materials, mat_name, d)
          /\ classified' = Append(classified, mat_name)
    /\ prefab_slot_shaders' = SlotShadersAfter(prefabs, pos, prefab_slot_shaders)
    /\ pos' = NextPos(prefabs, pos)
    /\ UNCHANGED <<pc, prefabs>>
    /\ UNCHANGED <<materialVars, determineVars, parseVars>>

\* return shader_cache, unmatched_materials
ReturnCache ==
    /\ pc = "building" /\ pos = <<>>
    /\ pc' = "built"
    /\ UNCHANGED <<materialVars, determineVars, cacheVars, parseVars>>

(***************************************************************************)
(* parse_material_list (material_list.py)                                  *)
(*   A line is the pattern that accepts it and the name it carries:        *)
(*   "blank" (nothing but white space), "prefab" (_PREFAB_PATTERN),        *)
(*   "mesh" (_MESH_PATTERN), "slot" and "custom_slot" (_SLOT_PATTERN, with *)
(*   a texture name or "Uses custom shader" in the parentheses),           *)
(*   "bad_slot" (holds "Slot:", _SLOT_PATTERN fails) and "other".          *)
(***************************************************************************)

MaxLines == 4

\* the files of up to MaxLines lines: each line is of one of the kinds and
\* carries a name of its own, so that every name in the result says which line
\* it came from
Files ==
    LET LineKinds == {"blank", "prefab", "mesh", "slot", "custom_slot", "bad_slot", "other"}
        LineNames == <<"L1", "L2", "L3", "L4", "L5", "L6">>
    IN UNION { { [i \in 1..n |-> [kind |-> ks[i], name |-> LineNames[i]]] :
                 ks \in [1..n -> LineKinds] } : n \in 0..MaxLines }

NoPrefab == [prefab_name |-> None]

NoMesh == [mesh_name |-> None]

NoSlot == [material_name |-> None]

\* `"Slot:" in line`
HasSlotMarker(line) == line.kind \in {"slot", "custom_slot", "bad_slot"}

\* _parse_slot_line(line), NoSlot for None
parse_slot_line(line) ==
    IF line.kind \notin {"slot", "custom_slot"} THEN NoSlot
    ELSE IF line.kind = "custom_slot"
         THEN [material_name |-> line.name, texture_name |-> None, uses_custom_shader |-> TRUE]
         ELSE [material_name |-> line.name, texture_name |-> "Texture_01",
               uses_custom_shader |-> FALSE]

\* `if current_mesh is not None: current_prefab.meshes.append(current_mesh)`
WithMeshSaved(prefab, mesh) ==
    IF mesh # NoMesh THEN [prefab EXCEPT !.meshes = Append(@, mesh)] ELSE prefab

\* `if current_prefab is not None:` save the mesh, then `prefabs.append(current_prefab)`
WithPrefabSaved(ps, prefab, mesh) ==
    IF prefab # NoPrefab THEN Append(ps, WithMeshSaved(prefab, mesh)) ELSE ps

\* variant: the mesh stays open across a Prefab line
MeshAfterPrefabLine_Kept(mesh) == mesh

\* current_mesh after a Prefab line: `current_mesh = None`
MeshAfterPrefabLine(mesh) == NoMesh

\* one pass of the loop over the lines of the file
ParseLine ==
    /\ pc = "parsing" /\ line_num <= Len(file_lines)
    /\ LET line == file_lines[line_num]
       IN IF line.kind = "blank"
          THEN UNCHANGED <<prefabs, current_prefab, current_mesh>>
          ELSE IF line.kind = "prefab"
          THEN /\ prefabs' = WithPrefabSaved(prefabs, current_prefab, current_mesh)
               /\ current_prefab' = [prefab_name |-> line.name, meshes |-> <<>>]
               /\ current_mesh' = MeshAfterPrefabLine(current_mesh)
          ELSE IF line.kind = "mesh"
          THEN IF current_prefab = NoPrefab
               THEN UNCHANGED <<prefabs, current_prefab, current_mesh>>
               ELSE /\ current_prefab' = WithMeshSaved(current_prefab, current_mesh)
                    /\ current_mesh' = [mesh_name |-> line.name, slots |-> <<>>]
                    /\ UNCHANGED prefabs
          ELSE IF HasSlotMarker(line) /\ current_mesh # NoMesh /\ parse_slot_line(line) # NoSlot
          THEN /\ current_mesh' = [current_mesh EXCEPT !.slots = Append(@, parse_slot_line(line))]
               /\ UNCHANGED <<prefabs, current_prefab>>
          ELSE UNCHANGED <<prefabs, current_prefab, current_mesh>>
    /\ line_num' = line_num + 1
    /\ UNCHANGED <<pc, file_lines, pos, prefab_slot_shaders, shader_cache, unmatched_materials,
                   classified>>
    /\ UNCHANGED <<materialVars, determineVars>>

\* after the loop: the last prefab is saved, ValueError without any prefab
FinishParse ==
    /\ pc = "parsing" /\ line_num > Len(file_lines)
    /\ prefabs' = WithPrefabSaved(prefabs, current_prefab, current_mesh)
    /\ pc' = IF prefabs' = <<>> THEN "raised" ELSE "parsed"
    /\ UNCHANGED <<pos, prefab_slot_shaders, shader_cache, unmatched_materials, classified>>
    /\ UNCHANGED <<materialVars, determineVars, parseVars>>

(***************************************************************************)
(* Specifications                                                          *)
(*   SpecClassify:  detect_shader_type applied to a material               *)
(*   Spec:          map_material applied to a material                     *)
(*   SpecDetermine: determine_shader applied to a name and a flag          *)
(*   SpecCache:     build_shader_cache applied to a prefab list, one slot  *)
(*                  of its loops per step                                  *)
(*   SpecCalls:     the three of detect_shader_type, map_material and      *)
(*                  build_shader_cache, each applied to its inputs         *)
(*   SpecParse:     parse_material_list applied to a file, one line per    *)
(*                  step                                                   *)
(***************************************************************************)

NoResult == [name |-> None]

\* the module-level property tables as the module defines them
PropertyTables == [texture |-> TEXTURE_MAPS, float |-> FLOAT_MAPS, color |-> COLOR_MAPS]

\* the variables of determine_shader while another operation is applied
DetermineIdle ==
    /\ determine_name = None
    /\ determine_custom = FALSE
    /\ decision = None

\* the variables of build_shader_cache while another operation is applied
CacheIdle ==
    /\ prefabs = <<>>
    /\ pos = <<>>
    /\ prefab_slot_shaders = EmptyDict
    /\ shader_cache = EmptyDict
    /\ unmatched_materials = <<>>
    /\ classified = <<>>

\* the variables of parse_material_list while another operation is applied
ParseIdle ==
    /\ file_lines = <<>>
    /\ line_num = 0
    /\ current_prefab = NoPrefab
    /\ current_mesh = NoMesh

\* the variables of detect_shader_type and map_material while another
\* operation is applied
MaterialIdle ==
    /\ material = None
    /\ texture_guid_map = EmptyDict
    /\ override_shader = None
    /\ shader = None
    /\ result = NoResult
    /\ detect_calls = 0
    /\ scores = EmptyDict
    /\ property_maps = EmptyDict

\* shader_scores as a function of the shaders that received a score
ScoresDict(shader_scores) ==
    [t \in Keys(shader_scores) |-> OGet(shader_scores, t, 0)]

InitClassify ==
    /\ pc = "start"
    /\ material \in ClassifyMaterials \cup TieMaterials
    /\ texture_guid_map = EmptyDict
    /\ override_shader = None
    /\ shader = None
    /\ result = NoResult
    /\ detect_calls = 0
    /\ scores = EmptyDict
    /\ property_maps = EmptyDict
    /\ DetermineIdle
    /\ CacheIdle
    /\ ParseIdle

\* detect_shader_type(material.shader_guid, material.name, material.floats, colors);
\* scores records shader_scores, which the GUID tier returns without building
DetectShaderType ==
    /\ pc = "start"
    /\ shader' = detect_shader_type(material.shader_guid, material.name,
                                    material.floats, material.colors)
    /\ scores' = IF GuidShortCircuit(guid_shader(material.shader_guid)) THEN EmptyDict
                 ELSE ScoresDict(ShaderScores(material.name, material.floats,
                                              material.colors))
    /\ pc' = "detected"
    /\ UNCHANGED <<material, texture_guid_map, override_shader, result, detect_calls,
                   property_maps>>
    /\ UNCHANGED <<determineVars, cacheVars, parseVars>>

NextClassify == DetectShaderType

SpecClassify == InitClassify /\ [][NextClassify]_vars

Init ==
    /\ pc = "start"
    /\ material \in MapMaterials
    /\ texture_guid_map \in Resolvers
    /\ override_shader \in Overrides
    /\ shader = None
    /\ result = NoResult
    /\ detect_calls = 0
    /\ scores = EmptyDict
    /\ property_maps = PropertyTables
    /\ DetermineIdle
    /\ CacheIdle
    /\ ParseIdle

\* map_material(material, texture_guid_map, override_shader); shader records what
\* detect_shader_type returned to it, None when it was not called; material and
\* property_maps are the argument and the tables as the call leaves them
MapMaterial ==
    /\ pc = "start"
    /\ result' = map_material(material, texture_guid_map, override_shader)
    /\ property_maps' = TablesAfterStep2(property_maps, result'.shader_file)
    /\ material' = [material EXCEPT !.colors =
            ColorsAfterStep5(@, PropertyMaps(result'.shader_file).color_map, material.floats)]
    /\ shader' = IF Truthy(override_shader) THEN None
                 ELSE Step1Shader(material, override_shader)
    /\ detect_calls' = IF Truthy(override_shader) THEN detect_calls ELSE detect_calls + 1
    /\ pc' = "mapped"
    /\ UNCHANGED <<texture_guid_map, override_shader, scores>>
    /\ UNCHANGED <<determineVars, cacheVars, parseVars>>

Next == MapMaterial

Spec == Init /\ [][Next]_vars

InitDetermine ==
    /\ pc = "start"
    /\ determine_name \in Names
    /\ determine_custom \in BOOLEAN
    /\ decision = None
    /\ MaterialIdle
    /\ CacheIdle
    /\ ParseIdle

\* determine_shader(material_name, uses_custom_shader)
DetermineShader ==
    /\ pc = "start"
    /\ decision' = determine_shader(determine_name, determine_custom)
    /\ pc' = "determined"
    /\ UNCHANGED <<determine_name, determine_custom>>
    /\ UNCHANGED <<materialVars, cacheVars, parseVars>>

NextDetermine == DetermineShader

SpecDetermine == InitDetermine /\ [][NextDetermine]_vars

\* build_shader_cache(prefabs) at the top of its loops
InitCache ==
    /\ pc = "building"
    /\ prefabs \in Manifests
    /\ pos = FirstOf(Positions(prefabs))
    /\ prefab_slot_shaders = EmptyDict
    /\ shader_cache = EmptyDict
    /\ unmatched_materials = <<>>
    /\ classified = <<>>
    /\ MaterialIdle
    /\ DetermineIdle
    /\ ParseIdle

NextCache ==
    \/ SkipCached
    \/ DecideLOD0
    \/ InheritLOD0
    \/ DecideIrregular
    \/ ReturnCache

SpecCache == InitCache /\ [][NextCache]_vars

\* the three operations, each applied to its inputs
InitCalls == Init \/ InitCache

NextCalls ==
    \/ DetectShaderType
    \/ MapMaterial
    \/ NextCache

SpecCalls == InitCalls /\ [][NextCalls]_vars

\* parse_material_list(path) before the first line
InitParse ==
    /\ pc = "parsing"
    /\ file_lines \in Files
    /\ line_num = 1
    /\ current_prefab = NoPrefab
    /\ current_mesh = NoMesh
    /\ MaterialIdle
    /\ DetermineIdle
    /\ CacheIdle

NextParse == ParseLine \/ FinishParse

SpecParse == InitParse /\ [][NextParse]_vars

(***************************************************************************)
(* Reference quantities the classifier properties are stated with          *)
(***************************************************************************)

Shaders ==
    { "polygon.gdshader", "foliage.gdshader", "water.gdshader", "crystal.gdshader",
      "particles.gdshader", "skydome.gdshader", "clouds.gdshader" }

RECURSIVE SumOfScores(_)
SumOfScores(rules) ==
    IF rules = {} THEN 0
    ELSE LET i == CHOOSE i \in rules : TRUE
         IN SHADER_NAME_PATTERNS_SCORED[i].score + SumOfScores(rules \ {i})

\* the rules of target t that match the name
MatchingRules(name, t) ==
    { i \in DOMAIN SHADER_NAME_PATTERNS_SCORED :
        /\ SHADER_NAME_PATTERNS_SCORED[i].shader = t
        /\ RuleMatches(i, name) }

\* the sum of the scores of all rules of target t that match the name
NameSum(name, t) == SumOfScores(MatchingRules(name, t))

\* the points the property tier gives target t
PropertyPoints(m, t) ==
    PROPERTY_SCORE *
      CASE t = "water.gdshader" ->
             CountProps(water_float_props, water_color_props, m.floats, m.colors)
        [] t = "foliage.gdshader" ->
             CountProps(foliage_float_props, foliage_color_props, m.floats, m.colors)
        [] t = "clouds.gdshader" ->
             CountProps(clouds_float_props, clouds_color_props, m.floats, m.colors)
        [] t = "particles.gdshader" ->
             CountProps(particles_float_props, {}, m.floats, m.colors)
        [] t = "skydome.gdshader" -> skydome_props(m.floats, m.colors)
        [] t = "crystal.gdshader" ->
             CountProps(crystal_float_props, crystal_color_props, m.floats, m.colors)
        [] OTHER -> 0

TotalScore(m, t) == NameSum(m.name, t) + PropertyPoints(m, t)

BestTotal(m) ==
    LET total == [t \in Shaders |-> TotalScore(m, t)]
    IN CHOOSE n \in {total[t] : t \in Shaders} :
           \A t \in Shaders : total[t] <= n

BestNameSum(name) ==
    LET sum == [t \in Shaders |-> NameSum(name, t)]
    IN CHOOSE n \in {sum[t] : t \in Shaders} :
           \A t \in Shaders : sum[t] <= n

NoPropertyEvidence(m) == \A t \in Shaders : PropertyPoints(m, t) = 0

\* the GUID tier settles the material
DirectGuidHit(m) ==
    /\ m.shader_guid \in DOMAIN SHADER_GUID_MAP
    /\ SHADER_GUID_MAP[m.shader_guid] # "polygon.gdshader"

(***************************************************************************)
(* Properties of detect_shader_type (SpecClassify)                         *)
(***************************************************************************)

\* C1 - GUID precedence: a shader GUID that SHADER_GUID_MAP maps to a
\* specialized shader decides the result, whatever the material name, floats
\* and colors score.
C1_GuidPrecedence ==
    (pc = "detected" /\ DirectGuidHit(material))
        => shader = SHADER_GUID_MAP[material.shader_guid]

\* a Synty Crystal material whose name scores 60 or more for polygon and that
\* carries diagnostic properties is classified crystal
C1_Witness ==
    /\ pc = "detected"
    /\ material.shader_guid = "5808064c5204e554c89f589a7059c558"
    /\ NameSum(material.name, "polygon.gdshader") >= 60
    /\ PropertyPoints(material, "particles.gdshader") > 0
    /\ shader = "crystal.gdshader"

\* C2 - Accumulation: without a direct GUID hit and without property evidence,
\* the result is a target whose sum over ALL its matching name rules is the
\* highest sum, whenever that sum reaches the threshold (polygon included).
C2_Accumulation ==
    (pc = "detected" /\ ~DirectGuidHit(material) /\ NoPropertyEvidence(material)
        /\ BestNameSum(material.name) >= 20)
        => NameSum(material.name, shader) = BestNameSum(material.name)

\* rules worth 15 + 60 for polygon beat the rule worth 20 for foliage
C2_Witness ==
    /\ pc = "detected"
    /\ ~DirectGuidHit(material)
    /\ NoPropertyEvidence(material)
    /\ Cardinality(MatchingRules(material.name, "polygon.gdshader")) = 2
    /\ NameSum(material.name, "polygon.gdshader") = 75
    /\ NameSum(material.name, "foliage.gdshader") = 20
    /\ shader = "polygon.gdshader"

\* C3 - Threshold: without a direct GUID hit, when no target's accumulated
\* name + property score reaches 20 the result is polygon (Generic), and a best
\* score of exactly 20 selects a target that holds it.
C3_Threshold ==
    (pc = "detected" /\ ~DirectGuidHit(material))
        => LET best == BestTotal(material)
           IN /\ best < 20 => shader = "polygon.gdshader"
              /\ best = 20 => TotalScore(material, shader) = 20

\* a specialized target scores 15 or 10, polygon scores nothing, and the
\* result is polygon all the same
C3_Witness ==
    /\ pc = "detected"
    /\ ~DirectGuidHit(material)
    /\ BestTotal(material) \in 1..19
    /\ TotalScore(material, "polygon.gdshader") = 0
    /\ shader = "polygon.gdshader"

(***************************************************************************)
(* Reference quantities the mapper properties are stated with              *)
(***************************************************************************)

\* the material carries a texture, float or color key of the shader's entry
\* in SHADER_SPECIFIC_PROPERTIES
HasSignatureKey(m, t) ==
    /\ t \in DOMAIN SHADER_SPECIFIC_PROPERTIES
    /\ \/ Keys(m.tex_envs) \cap SHADER_SPECIFIC_PROPERTIES[t].textures # {}
       \/ Keys(m.floats) \cap SHADER_SPECIFIC_PROPERTIES[t].floats # {}
       \/ Keys(m.colors) \cap SHADER_SPECIFIC_PROPERTIES[t].colors # {}

\* the material of the end-to-end example
IsCrystalGem(m) ==
    /\ m.name = "Crystal_Gem_01"
    /\ m.shader_guid = ""
    /\ m.tex_envs = <<>> /\ m.floats = <<>> /\ m.colors = <<>>

\* the merged maps of the shader the result names
FinalFloatMap == PropertyMaps(result.shader_file).float_map

FinalColorMap == PropertyMaps(result.shader_file).color_map

FinalTextureMap == PropertyMaps(result.shader_file).texture_map

\* the material's textures whose Unity name is in the map and whose GUID the
\* resolver knows
ResolvableTextures(m, texture_map, guid_map) ==
    { i \in DOMAIN m.tex_envs :
        m.tex_envs[i].k \in DOMAIN texture_map /\ m.tex_envs[i].v.guid \in DOMAIN guid_map }

\* entry i is the last entry of the ordered dict od whose key the map sends to
\* the Godot name of entry i
LastFor(od, map, i) ==
    \A j \in DOMAIN od :
        (j > i /\ od[j].k \in DOMAIN map) => map[od[j].k] # map[od[i].k]

\* the material has a `_Mode` float of 1.0 or more
HasTransparencyMode(m) ==
    \E i \in DOMAIN m.floats : m.floats[i].k = "_Mode" /\ m.floats[i].v >= 100

\* the four conditions of the alpha fix
AlphaFixDue(m, unity_name, color) ==
    /\ unity_name \in ALPHA_FIX_PROPERTIES
    /\ color.a = 0
    /\ (color.r # 0 \/ color.g # 0 \/ color.b # 0)
    /\ ~HasTransparencyMode(m)

\* the material's floats that are not boolean properties and are in the map
MappedPlainFloats(m, float_map) ==
    { i \in DOMAIN m.floats :
        m.floats[i].k \notin BOOLEAN_FLOAT_PROPERTIES /\ m.floats[i].k \in DOMAIN float_map }

\* the material's floats that are boolean properties
BooleanFloats(m) == { i \in DOMAIN m.floats : m.floats[i].k \in BOOLEAN_FLOAT_PROPERTIES }

\* the name a boolean property is to appear under
ExpectedBoolName(unity_name, float_map) ==
    IF unity_name \in DOMAIN float_map THEN float_map[unity_name]
    ELSE unity_to_godot_name(unity_name)

\* entry i is the last boolean property of floats that appears under its name
LastBoolFor(floats, float_map, i) ==
    \A j \in DOMAIN floats :
        (j > i /\ floats[j].k \in BOOLEAN_FLOAT_PROPERTIES)
            => ExpectedBoolName(floats[j].k, float_map) # ExpectedBoolName(floats[i].k, float_map)

\* the names of the defaults of one kind registered for a shader
DefaultNames(t, kind) ==
    LET defaults == Get(SHADER_DEFAULTS, t, EmptyDict)
    IN { p \in DOMAIN defaults : defaults[p].kind = kind }

(***************************************************************************)
(* Properties of map_material (Spec)                                       *)
(***************************************************************************)

C5_SignatureDowngrade ==
    (pc = "mapped" /\ ~Truthy(override_shader) /\ ~DirectGuidHit(material)
        /\ shader # "polygon.gdshader")
        => result.shader_file =
              IF HasSignatureKey(material, shader) THEN shader ELSE "polygon.gdshader"

\* "Water_Bucket" scores for water by name, has no water signature property,
\* and is mapped with polygon
C5_Witness ==
    /\ pc = "mapped"
    /\ ~Truthy(override_shader)
    /\ ~DirectGuidHit(material)
    /\ material.name = "Water_Bucket"
    /\ shader = "water.gdshader"
    /\ ~HasSignatureKey(material, "water.gdshader")
    /\ result.shader_file = "polygon.gdshader"

\* C6 - Signature validation only after the name-pattern and property tiers:
\* without an override, a material whose shader GUID maps directly to a
\* specialized shader is mapped with that shader, signature properties or not.
C6_GuidHitNotValidated ==
    (pc = "mapped" /\ ~Truthy(override_shader) /\ DirectGuidHit(material))
        => result.shader_file = SHADER_GUID_MAP[material.shader_guid]

C8_AlphaFix ==
    pc = "mapped" =>
        \A i \in DOMAIN material.colors :
            LET unity_name == material.colors[i].k
                color == material.colors[i].v
            IN (unity_name \in DOMAIN FinalColorMap
                    /\ LastFor(material.colors, FinalColorMap, i))
                => /\ FinalColorMap[unity_name] \in DOMAIN result.colors
                   /\ result.colors[FinalColorMap[unity_name]] =
                         IF AlphaFixDue(material, unity_name, color)
                         THEN [r |-> color.r, g |-> color.g, b |-> color.b, a |-> 100]
                         ELSE color

\* Color(0.5, 0.3, 0.2, 0.0) under `_Color`, with a `_Mode` float below 1,
\* comes out with alpha 1.0
C8_Witness ==
    /\ pc = "mapped"
    /\ \E i \in DOMAIN material.colors :
          material.colors[i] = [k |-> "_Color", v |-> ColorRgbNoAlpha]
    /\ \E i \in DOMAIN material.floats : material.floats[i].k = "_Mode"
    /\ ~HasTransparencyMode(material)
    /\ result.shader_file = "polygon.gdshader"
    /\ result.colors["color_tint"] = [r |-> 50, g |-> 30, b |-> 20, a |-> 100]

\* C9 - Boolean extraction: the floats of the material are partitioned. A
\* property of BOOLEAN_FLOAT_PROPERTIES is in bools, under its mapped name or
\* else its derived snake_case name, with value (value # 0), and floats holds
\* nothing under that name; any other float is in floats under its mapped name
\* when the merged float map has its Unity name; and floats and bools hold
\* nothing else but the defaults, so every other float is dropped.
C9_BooleanExtraction ==
    pc = "mapped" =>
        LET floats == material.floats
            plain == MappedPlainFloats(material, FinalFloatMap)
            booleans == BooleanFloats(material)
        IN /\ \A i \in booleans :
                 LET godot_name == ExpectedBoolName(floats[i].k, FinalFloatMap)
                 IN /\ godot_name \in DOMAIN result.bools
                    /\ LastBoolFor(floats, FinalFloatMap, i)
                          => result.bools[godot_name] = (floats[i].v # 0)
                    /\ godot_name \notin DOMAIN result.floats
                    /\ floats[i].k \notin DOMAIN result.floats
           /\ \A i \in plain :
                 LastFor(floats, FinalFloatMap, i)
                    => /\ FinalFloatMap[floats[i].k] \in DOMAIN result.floats
                       /\ result.floats[FinalFloatMap[floats[i].k]] = floats[i].v
           /\ DOMAIN result.floats =
                 {FinalFloatMap[floats[i].k] : i \in plain}
                    \cup DefaultNames(result.shader_file, "float")
           /\ DOMAIN result.bools =
                 {ExpectedBoolName(floats[i].k, FinalFloatMap) : i \in booleans}
                    \cup DefaultNames(result.shader_file, "bool")

\* `_Enable_Snow` = 1.0 is true in bools under "enable_snow", and the unmapped
\* `_Mode` beside it is in neither map
C9_Witness ==
    /\ pc = "mapped"
    /\ Keys(material.floats) = {"_Enable_Snow", "_Mode"}
    /\ OGet(material.floats, "_Enable_Snow", 0) = 100
    /\ result.bools = ("enable_snow" :> TRUE)
    /\ "enable_snow" \notin DOMAIN result.floats
    /\ "mode" \notin DOMAIN result.floats

\* C10 - Defaults never override: for every default registered for the
\* result's shader, the result holds the value the float/bool mapping produced
\* under that name when it produced one, and the default value only otherwise.
C10_DefaultsNeverOverride ==
    pc = "mapped" =>
        LET defaults == Get(SHADER_DEFAULTS, result.shader_file, EmptyDict)
            floats == material.floats
        IN \A p \in DOMAIN defaults :
              IF defaults[p].kind = "float"
              THEN LET produced == { i \in MappedPlainFloats(material, FinalFloatMap) :
                                       /\ FinalFloatMap[floats[i].k] = p
                                       /\ LastFor(floats, FinalFloatMap, i) }
                   IN /\ p \in DOMAIN result.floats
                      /\ \A i \in produced : result.floats[p] = floats[i].v
                      /\ produced = {} => result.floats[p] = defaults[p].value
              ELSE LET produced == { i \in BooleanFloats(material) :
                                       /\ ExpectedBoolName(floats[i].k, FinalFloatMap) = p
                                       /\ LastBoolFor(floats, FinalFloatMap, i) }
                   IN /\ p \in DOMAIN result.bools
                      /\ \A i \in produced : result.bools[p] = (floats[i].v # 0)
                      /\ produced = {} => result.bools[p] = defaults[p].value

\* a crystal material with an explicit `_Opacity` of 1.0 keeps opacity 1.0,
\* not the default 0.7
C10_Witness ==
    /\ pc = "mapped"
    /\ result.shader_file = "crystal.gdshader"
    /\ OGet(material.floats, "_Opacity", 0) = 100
    /\ result.floats["opacity"] = 100
    /\ SHADER_DEFAULTS["crystal.gdshader"]["opacity"].value = 70

(***************************************************************************)
(* Reference quantities the cache properties are stated with               *)
(***************************************************************************)

\* the material name of the slot at a position
NameAt(ps, at) == SlotAt(ps, at).material_name

\* the loops have been through the slot at a position
Processed(at) == pos = <<>> \/ Before(at, pos)

\* no slot visited before this one names the same material
FirstOccurrence(ps, at) ==
    \A b \in Positions(ps) : Before(b, at) => NameAt(ps, b) # NameAt(ps, at)

\* the slot of the same index in the first mesh of the prefab
LOD0Slot(at) == <<at[1], 1, at[3]>>

\* a slot of a later mesh whose index was decided at the prefab's first mesh:
\* the first mesh has the index, and its material was not cached before
DecidedAtLOD0(ps, at) ==
    /\ at[2] > 1
    /\ LOD0Slot(at) \in Positions(ps)
    /\ FirstOccurrence(ps, LOD0Slot(at))

\* the slots that name a material
SlotsNaming(ps, name) == {at \in Positions(ps) : NameAt(ps, at) = name}

\* the first slot that names a material
FirstSlotNaming(ps, name) == FirstOf(SlotsNaming(ps, name))

\* the material names of a prefab list
ManifestNames(ps) == {NameAt(ps, at) : at \in Positions(ps)}

\* the elements of a sequence
Range(seq) == {seq[i] : i \in DOMAIN seq}

(***************************************************************************)
(* Properties of build_shader_cache (SpecCache)                            *)
(***************************************************************************)

\* C11 - Cache write-once: at every step of build_shader_cache, a name that
\* is in the cache stays in it with the same shader.
C11_WriteOnce ==
    [][\A name \in DOMAIN shader_cache :
          /\ name \in DOMAIN shader_cache'
          /\ shader_cache'[name] = shader_cache[name]]_vars

\* "Crystal_Gem" was first met in a slot without the custom-shader flag and
\* again, at another slot index, in a slot with it (where its name alone gives
\* crystal), and the cache holds the first decision
C11_Witness ==
    /\ pc = "building"
    /\ \E a, b \in SlotsNaming(prefabs, "Crystal_Gem") :
          /\ Before(a, b) /\ Processed(b)
          /\ FirstOccurrence(prefabs, a)
          /\ a[3] # b[3]
          /\ ~SlotAt(prefabs, a).uses_custom_shader
          /\ SlotAt(prefabs, b).uses_custom_shader
    /\ shader_cache["Crystal_Gem"] = "polygon.gdshader"

\* C12 - LOD inheritance: a step at a slot of a later mesh whose material is
\* not cached yet and whose index was decided at the prefab's first mesh caches
\* the material with the shader of the first mesh's slot, and determine_shader
\* is not called.
C12_LodInheritance ==
    [][(pc = "building" /\ pos # <<>>
            /\ FirstOccurrence(prefabs, pos) /\ DecidedAtLOD0(prefabs, pos))
        => /\ NameAt(prefabs, pos) \in DOMAIN shader_cache'
           /\ shader_cache'[NameAt(prefabs, pos)] =
                 shader_cache[NameAt(prefabs, LOD0Slot(pos))]
           /\ classified' = classified]_vars

\* "Mat_A", which matches no pattern, and whose slot is marked custom-shader,
\* got crystal from the first mesh's "Crystal_Gem" without being classified
C12_Witness ==
    /\ \E at \in SlotsNaming(prefabs, "Mat_A") :
          /\ Processed(at)
          /\ FirstOccurrence(prefabs, at) /\ DecidedAtLOD0(prefabs, at)
          /\ SlotAt(prefabs, at).uses_custom_shader
          /\ NameAt(prefabs, LOD0Slot(at)) = "Crystal_Gem"
    /\ shader_cache["Mat_A"] = "crystal.gdshader"
    /\ "Mat_A" \notin Range(classified)
    /\ "Mat_A" \notin Range(unmatched_materials)

\* C13 - LOD0 is authoritative per slot index: after build_shader_cache, for
\* every prefab, every later mesh and every slot index that the first mesh
\* has too, the cache gives the slot's material the shader it gives the first
\* mesh's material of that index.
C13_LodAuthoritative ==
    pc = "built" =>
        \A at \in Positions(prefabs) :
            (at[2] > 1 /\ LOD0Slot(at) \in Positions(prefabs))
                => shader_cache[NameAt(prefabs, at)]
                      = shader_cache[NameAt(prefabs, LOD0Slot(at))]

\* C14, as stated - after build_shader_cache, every material that occurs in a
\* custom-shader slot and whose name scores below 20 for every target is in
\* unmatched_materials and cached as polygon.
C14_UnmatchedAlways ==
    pc = "built" =>
        \A at \in Positions(prefabs) :
            (SlotAt(prefabs, at).uses_custom_shader /\ BestNameSum(NameAt(prefabs, at)) < 20)
                => /\ NameAt(prefabs, at) \in Range(unmatched_materials)
                   /\ shader_cache[NameAt(prefabs, at)] = "polygon.gdshader"

\* C14, amended - after build_shader_cache, every material whose FIRST slot is
\* marked custom-shader and is classified (a slot of a first mesh, or of a
\* later mesh whose index was not decided at the first mesh), and whose name
\* scores below 20 for every target, is in unmatched_materials and cached as
\* polygon.
C14_UnmatchedWhenClassified ==
    pc = "built" =>
        \A name \in ManifestNames(prefabs) :
            LET at == FirstSlotNaming(prefabs, name)
            IN (SlotAt(prefabs, at).uses_custom_shader /\ BestNameSum(name) < 20
                    /\ ~DecidedAtLOD0(prefabs, at))
                => /\ name \in Range(unmatched_materials)
                   /\ shader_cache[name] = "polygon.gdshader"

\* "Mat_A" first occurs in a custom-shader slot of a later mesh with nothing
\* to inherit, and is reported and cached as polygon
C14_Witness ==
    /\ pc = "built"
    /\ LET at == FirstSlotNaming(prefabs, "Mat_A")
       IN /\ at # <<>>
          /\ at[2] > 1
          /\ SlotAt(prefabs, at).uses_custom_shader
          /\ ~DecidedAtLOD0(prefabs, at)
    /\ "Mat_A" \in Range(unmatched_materials)
    /\ shader_cache["Mat_A"] = "polygon.gdshader"

\* C15, as stated - after build_shader_cache, every material none of whose
\* slots is marked custom-shader is cached as polygon.
C15_PlainIsPolygon ==
    pc = "built" =>
        \A name \in ManifestNames(prefabs) :
            (\A at \in SlotsNaming(prefabs, name) : ~SlotAt(prefabs, at).uses_custom_shader)
                => shader_cache[name] = "polygon.gdshader"

\* C15, amended - after build_shader_cache, every material none of whose
\* slots is marked custom-shader is cached as polygon, unless its first slot
\* is a slot of a later mesh whose index was decided at the first mesh: then
\* it is cached with the shader of the first mesh's material of that index.
C15_PlainIsPolygonUnlessInherited ==
    pc = "built" =>
        \A name \in ManifestNames(prefabs) :
            LET at == FirstSlotNaming(prefabs, name)
            IN (\A b \in SlotsNaming(prefabs, name) : ~SlotAt(prefabs, b).uses_custom_shader)
                => shader_cache[name] =
                      IF DecidedAtLOD0(prefabs, at)
                      THEN shader_cache[NameAt(prefabs, LOD0Slot(at))]
                      ELSE "polygon.gdshader"

\* "Crystal_Gem", whose name alone gives crystal, has no custom-shader slot,
\* is classified at its first slot and is cached as polygon
C15_Witness ==
    /\ pc = "built"
    /\ SlotsNaming(prefabs, "Crystal_Gem") # {}
    /\ \A at \in SlotsNaming(prefabs, "Crystal_Gem") : ~SlotAt(prefabs, at).uses_custom_shader
    /\ ~DecidedAtLOD0(prefabs, FirstSlotNaming(prefabs, "Crystal_Gem"))
    /\ shader_cache["Crystal_Gem"] = "polygon.gdshader"

(***************************************************************************)
(* Properties of determine_shader (SpecDetermine)                          *)
(***************************************************************************)

\* C16 - determine_shader against its reference: without the custom-shader
\* flag the result is (polygon, True) whatever the name; with it, the result
\* is (a target holding the highest sum of matching name rules, True) when
\* that sum is 20 or more, and (polygon, False) when it is not.
C16_DetermineReference ==
    pc = "determined" =>
        IF ~determine_custom
        THEN decision = [shader |-> "polygon.gdshader", matched |-> TRUE]
        ELSE IF BestNameSum(determine_name) >= 20
        THEN /\ decision.matched
             /\ NameSum(determine_name, decision.shader) = BestNameSum(determine_name)
        ELSE decision = [shader |-> "polygon.gdshader", matched |-> FALSE]

\* a custom-shader name whose best sum is 15 gives (polygon, False)
C16_Witness ==
    /\ pc = "determined"
    /\ determine_custom
    /\ BestNameSum(determine_name) \in 1..19
    /\ decision = [shader |-> "polygon.gdshader", matched |-> FALSE]

(***************************************************************************)
(* Properties of map_material, continued (Spec)                            *)
(***************************************************************************)

\* C17 - Texture mapping: the result's textures hold exactly the entries
\* Godot parameter -> resolved file name of the material's textures whose
\* Unity name is in the merged texture map and whose GUID the resolver knows
\* (the last such texture in order where two share a Godot parameter); a
\* texture whose GUID the resolver does not know leaves no entry and changes
\* no other.
C17_TextureMapping ==
    pc = "mapped" =>
        LET tex == material.tex_envs
            kept == ResolvableTextures(material, FinalTextureMap, texture_guid_map)
        IN /\ DOMAIN result.textures = {FinalTextureMap[tex[i].k] : i \in kept}
           /\ \A i \in kept :
                 (\A j \in kept : j > i => FinalTextureMap[tex[j].k] # FinalTextureMap[tex[i].k])
                    => result.textures[FinalTextureMap[tex[i].k]] = texture_guid_map[tex[i].v.guid]

\* a crystal material with a resolvable `_MainTex` followed by an unresolvable
\* `_Base_Albedo`, both mapped to base_albedo: the result keeps Texture_01
C17_Witness ==
    /\ pc = "mapped"
    /\ Len(material.tex_envs) = 2
    /\ material.tex_envs[1] = [k |-> "_MainTex", v |-> [guid |-> "aaaa0000aaaa0000aaaa0000aaaa0000"]]
    /\ material.tex_envs[2].v.guid \notin DOMAIN texture_guid_map
    /\ result.shader_file = "crystal.gdshader"
    /\ result.textures = ("base_albedo" :> "Texture_01")

\* the fields of a MappedMaterial
WellFormedResult(r) ==
    /\ DOMAIN r = {"name", "shader_file", "textures", "floats", "bools", "colors"}
    /\ r.shader_file \in Shaders
    /\ \A p \in DOMAIN r.bools : r.bools[p] \in BOOLEAN
    /\ \A p \in DOMAIN r.floats : r.floats[p] \in Int
    /\ \A p \in DOMAIN r.colors : DOMAIN r.colors[p] = {"r", "g", "b", "a"}
    /\ \A p \in DOMAIN r.textures : r.textures[p] \in {texture_guid_map[g] : g \in DOMAIN texture_guid_map}

\* C18 - Best-effort totality: for every material, whatever its shader GUID
\* (empty and unknown included), its properties and its texture GUIDs,
\* map_material returns a MappedMaterial for one of the 7 shaders and the
\* classification it runs returns one of the 7 shaders; with a GUID that
\* SHADER_GUID_MAP does not list and no target scoring 20 or more, that
\* shader is polygon.
C18_BestEffort ==
    pc = "mapped" =>
        /\ WellFormedResult(result)
        /\ result.name = material.name
        /\ ~Truthy(override_shader) =>
              /\ shader \in Shaders
              /\ (material.shader_guid \notin DOMAIN SHADER_GUID_MAP /\ BestTotal(material) < 20)
                    => /\ shader = "polygon.gdshader"
                       /\ result.shader_file = "polygon.gdshader"

\* a material with an unlisted shader GUID, a name no rule matches and only an
\* unresolvable texture is classified and mapped as polygon
C18_Witness ==
    /\ pc = "mapped"
    /\ ~Truthy(override_shader)
    /\ material.shader_guid = "00000000000000000000000000000001"
    /\ material.name = "Mat_01"
    /\ Len(material.tex_envs) = 1
    /\ material.tex_envs[1].v.guid \notin DOMAIN texture_guid_map
    /\ material.floats = <<>> /\ material.colors = <<>>
    /\ shader = "polygon.gdshader"
    /\ result.shader_file = "polygon.gdshader"
    /\ result.textures = EmptyDict

(***************************************************************************)
(* Properties of detect_shader_type, continued (SpecClassify)              *)
(***************************************************************************)

\* the accumulated score of target t, 0 for a target that received none
ScoreOf(t) == IF t \in DOMAIN scores THEN scores[t] ELSE 0

\* the number of target t's diagnostic property names among the material's
\* float and color keys
DiagnosticCount(m, t) ==
    CASE t = "water.gdshader" ->
           CountProps(water_float_props, water_color_props, m.floats, m.colors)
      [] t = "foliage.gdshader" ->
           CountProps(foliage_float_props, foliage_color_props, m.floats, m.colors)
      [] t = "clouds.gdshader" ->
           CountProps(clouds_float_props, clouds_color_props, m.floats, m.colors)
      [] t = "particles.gdshader" ->
           CountProps(particles_float_props, {}, m.floats, m.colors)
      [] t = "skydome.gdshader" ->
           CountProps(skydome_float_props, skydome_color_props, m.floats, m.colors)
      [] t = "crystal.gdshader" ->
           CountProps(crystal_float_props, crystal_color_props, m.floats, m.colors)
      [] OTHER -> 0

\* the scoring tiers ran
ScoringRan == pc = "detected" /\ ~DirectGuidHit(material)

GroupIndex(t) ==
    CASE t = "water.gdshader" -> 1
      [] t = "foliage.gdshader" -> 2
      [] t = "clouds.gdshader" -> 3
      [] t = "particles.gdshader" -> 4
      [] t = "skydome.gdshader" -> 5
      [] t = "crystal.gdshader" -> 6
      [] OTHER -> 7

\* when target t first received a score: the index of its first matching name
\* rule, or else the place of its property group after all the name rules
FirstScored(m, t) ==
    IF MatchingRules(m.name, t) # {}
    THEN CHOOSE i \in MatchingRules(m.name, t) : \A j \in MatchingRules(m.name, t) : i <= j
    ELSE Len(SHADER_NAME_PATTERNS_SCORED) + GroupIndex(t)

\* the targets that hold the highest accumulated score
TiedBest == { t \in DOMAIN scores : \A u \in DOMAIN scores : scores[u] <= scores[t] }

\* C20 - Deterministic tie-break: when the GUID tier does not short-circuit
\* and the highest accumulated score is 20 or more, the shader returned is,
\* of the targets holding that score, the one that first received a score in
\* evaluation order (name rules in declared order, then the property groups
\* water, foliage, clouds, particles, skydome, crystal); the result is so a
\* function of guid, name, floats and colors.
C20_TieBreak ==
    (ScoringRan /\ \E t \in DOMAIN scores : scores[t] >= 20) =>
        /\ shader \in TiedBest
        /\ \A t \in TiedBest \ {shader} :
              FirstScored(material, shader) < FirstScored(material, t)

\* two targets that no name rule matches tie at the top: the one returned is
\* the one whose property group comes first
C20_Witness ==
    /\ ScoringRan
    /\ \E t \in DOMAIN scores : scores[t] >= 20
    /\ Cardinality(TiedBest) >= 2
    /\ shader \in TiedBest
    /\ \A t \in TiedBest : MatchingRules(material.name, t) = {}

(***************************************************************************)
(* Properties of build_shader_cache, continued (SpecCache)                 *)
(***************************************************************************)

\* the loops are at a slot of a later mesh whose material is not cached
AtUncachedLaterSlot ==
    /\ pc = "building" /\ pos # <<>>
    /\ pos[2] > 1
    /\ NameAt(prefabs, pos) \notin DOMAIN shader_cache

\* C21 - Inheritance is always confident: a step that caches a material by
\* LOD inheritance (a slot of a later mesh, not cached, whose index has a
\* decision of the first mesh) caches the inherited shader and leaves the
\* unmatched list as it was, whatever the inherited decision and the slot's
\* own name and flag.
C21_InheritanceConfident ==
    [][(AtUncachedLaterSlot /\ pos[3] \in DOMAIN prefab_slot_shaders)
        => /\ unmatched_materials' = unmatched_materials
           /\ shader_cache' =
                 Put(shader_cache, NameAt(prefabs, pos), prefab_slot_shaders[pos[3]])]_vars

\* the first mesh's "Mat_A" was an unmatched polygon fallback, and the
\* custom-shader "Mat_B" of the second mesh, which no pattern matches either,
\* inherited it without being reported
C21_Witness ==
    /\ Len(prefabs) = 1
    /\ Positions(prefabs) = {<<1, 1, 1>>, <<1, 2, 1>>}
    /\ SlotAt(prefabs, <<1, 1, 1>>) = [material_name |-> "Mat_A", uses_custom_shader |-> TRUE]
    /\ SlotAt(prefabs, <<1, 2, 1>>) = [material_name |-> "Mat_B", uses_custom_shader |-> TRUE]
    /\ pos = <<>>
    /\ shader_cache = ("Mat_A" :> "polygon.gdshader") @@ ("Mat_B" :> "polygon.gdshader")
    /\ unmatched_materials = <<"Mat_A">>
    /\ classified = <<"Mat_A">>

\* C22 - Irregular prefab fallback: a step at a slot of a later mesh whose
\* material is not cached and whose index has no decision of the prefab's
\* first mesh caches what determine_shader gives for the slot's own name and
\* flag (polygon without the flag; with it, a target of the highest name sum
\* when that is 20 or more, else polygon), and appends the name to the
\* unmatched list exactly when the flag is set and no sum reaches 20.
C22_IrregularFallback ==
    [][(AtUncachedLaterSlot /\ pos[3] \notin DOMAIN prefab_slot_shaders)
        => LET name == NameAt(prefabs, pos)
               custom == SlotAt(prefabs, pos).uses_custom_shader
               confident == BestNameSum(name) >= 20
           IN /\ DOMAIN shader_cache' = DOMAIN shader_cache \cup {name}
              /\ \A n \in DOMAIN shader_cache : shader_cache'[n] = shader_cache[n]
              /\ IF custom /\ confident
                 THEN NameSum(name, shader_cache'[name]) = BestNameSum(name)
                 ELSE shader_cache'[name] = "polygon.gdshader"
              /\ unmatched_materials' =
                    IF custom /\ ~confident
                    THEN Append(unmatched_materials, name)
                    ELSE unmatched_materials]_vars

\* a prefab whose second mesh has a second slot and whose first mesh has not:
\* the custom-shader "Crystal_Gem" there is classified by its own name and
\* not reported
C22_Witness ==
    /\ Len(prefabs) = 1
    /\ Positions(prefabs) = {<<1, 1, 1>>, <<1, 2, 1>>, <<1, 2, 2>>}
    /\ SlotAt(prefabs, <<1, 1, 1>>).material_name = "Mat_A"
    /\ SlotAt(prefabs, <<1, 2, 1>>).material_name = "Mat_A"
    /\ SlotAt(prefabs, <<1, 2, 2>>) = [material_name |-> "Crystal_Gem", uses_custom_shader |-> TRUE]
    /\ pos = <<>>
    /\ shader_cache["Crystal_Gem"] = "crystal.gdshader"
    /\ "Crystal_Gem" \in Range(classified)
    /\ "Crystal_Gem" \notin Range(unmatched_materials)

\* C23 - The slot-index map is per prefab: while the loops are in a prefab,
\* every entry of prefab_slot_shaders is the decision cached for a slot of
\* that prefab's first mesh that the loops have been through; so the map is
\* empty when the loops enter a prefab, and a slot of a later mesh can only
\* inherit from the first mesh of its own prefab.
C23_SlotMapPerPrefab ==
    (pc = "building" /\ pos # <<>>) =>
        \A i \in DOMAIN prefab_slot_shaders :
            LET lod0 == <<pos[1], 1, i>>
            IN /\ lod0 \in Positions(prefabs)
               /\ Before(lod0, pos)
               /\ prefab_slot_shaders[i] = shader_cache[NameAt(prefabs, lod0)]

\* the loops are at the second mesh of the second prefab, whose first mesh
\* recorded nothing (its material was cached by the first prefab), while the
\* first prefab's first mesh decided crystal for the same slot index
C23_Witness ==
    /\ pc = "building"
    /\ pos = <<2, 2, 1>>
    /\ NameAt(prefabs, <<1, 1, 1>>) = "Crystal_Gem"
    /\ NameAt(prefabs, <<2, 1, 1>>) = "Crystal_Gem"
    /\ shader_cache = ("Crystal_Gem" :> "crystal.gdshader")
    /\ prefab_slot_shaders = EmptyDict

\* C27 - Cache completeness: when build_shader_cache returns, the keys of
\* the cache are exactly the material names of the slots of the prefab list.
C27_CacheComplete ==
    pc = "built" => DOMAIN shader_cache = ManifestNames(prefabs)

\* a prefab list whose three slots, in one mesh, name three materials, all
\* cached on return
C27_Witness ==
    /\ pc = "built"
    /\ Positions(prefabs) = {<<1, 1, 1>>, <<1, 1, 2>>, <<1, 1, 3>>}
    /\ ManifestNames(prefabs) = CacheNames
    /\ DOMAIN shader_cache = CacheNames

\* C28 - Unmatched list consistency: at every step of build_shader_cache,
\* every name of the unmatched list is cached as polygon, and no name is in
\* the list twice.
C28_UnmatchedConsistent ==
    /\ \A i \in DOMAIN unmatched_materials :
          /\ unmatched_materials[i] \in DOMAIN shader_cache
          /\ shader_cache[unmatched_materials[i]] = "polygon.gdshader"
    /\ \A i, j \in DOMAIN unmatched_materials :
          i # j => unmatched_materials[i] # unmatched_materials[j]

\* "Mat_A" is in two custom-shader slots and "Mat_B" in one: the list holds
\* each once
C28_Witness ==
    /\ pc = "built"
    /\ Cardinality(SlotsNaming(prefabs, "Mat_A")) = 2
    /\ \A at \in Positions(prefabs) : SlotAt(prefabs, at).uses_custom_shader
    /\ \A at \in Positions(prefabs) : at[2] = 1
    /\ unmatched_materials = <<"Mat_A", "Mat_B">>
    /\ shader_cache = ("Mat_A" :> "polygon.gdshader") @@ ("Mat_B" :> "polygon.gdshader")

(***************************************************************************)
(* Properties of map_material, third part (Spec)                           *)
(***************************************************************************)

\* C24 - Map merge precedence: in the result for shader t, a texture (with a
\* resolvable GUID), a color or a non-boolean float of the material appears
\* under the name t's own map gives its Unity name, or else, for t other than
\* polygon too, under the name the polygon map gives it, and under no name
\* when neither map has it; textures and colors hold no other names.
C24_MergePrecedence ==
    pc = "mapped" =>
        LET t == result.shader_file
            NameIn(maps, u) ==
                IF t \in DOMAIN maps /\ u \in DOMAIN maps[t] THEN maps[t][u]
                ELSE IF u \in DOMAIN maps["polygon.gdshader"] THEN maps["polygon.gdshader"][u]
                ELSE None
            tex == material.tex_envs
            resolvable == {i \in DOMAIN tex : tex[i].v.guid \in DOMAIN texture_guid_map}
        IN /\ DOMAIN result.textures =
                 {NameIn(TEXTURE_MAPS, tex[i].k) : i \in resolvable} \ {None}
           /\ DOMAIN result.colors =
                 {NameIn(COLOR_MAPS, material.colors[i].k) : i \in DOMAIN material.colors} \ {None}
           /\ \A i \in DOMAIN material.floats :
                 (material.floats[i].k \notin BOOLEAN_FLOAT_PROPERTIES
                      /\ NameIn(FLOAT_MAPS, material.floats[i].k) # None)
                    => NameIn(FLOAT_MAPS, material.floats[i].k) \in DOMAIN result.floats

\* a crystal result: `_MainTex`, which the polygon map calls base_texture and
\* the crystal map base_albedo, is under base_albedo
C24_Witness ==
    /\ pc = "mapped"
    /\ result.shader_file = "crystal.gdshader"
    /\ "_MainTex" \in DOMAIN TEXTURE_MAP_POLYGON /\ "_MainTex" \in DOMAIN TEXTURE_MAP_CRYSTAL
    /\ TEXTURE_MAP_POLYGON["_MainTex"] # TEXTURE_MAP_CRYSTAL["_MainTex"]
    /\ Keys(material.tex_envs) = {"_MainTex"}
    /\ result.textures = ("base_albedo" :> "Texture_01")


(***************************************************************************)
(* Properties of determine_shader, continued (SpecDetermine)               *)
(***************************************************************************)

C30_DefaultsFollowFinal ==
    pc = "mapped" =>
        LET original == IF Truthy(override_shader) THEN override_shader ELSE shader
            final == result.shader_file
            mapped == { FinalFloatMap[material.floats[i].k] :
                            i \in MappedPlainFloats(material, FinalFloatMap) }
        IN /\ DefaultNames(final, "float") \subseteq DOMAIN result.floats
           /\ original # final =>
                 \A n \in DefaultNames(original, "float") \ DefaultNames(final, "float") :
                     n \in DOMAIN result.floats => n \in mapped

\* a crystal override downgraded to polygon: the polygon default of smoothness
\* is injected, the crystal default of opacity is not
C30_Witness ==
    /\ pc = "mapped"
    /\ override_shader = "crystal.gdshader"
    /\ result.shader_file = "polygon.gdshader"
    /\ "_Smoothness" \notin Keys(material.floats)
    /\ "smoothness" \in DOMAIN result.floats /\ result.floats["smoothness"] = 50
    /\ "opacity" \notin DOMAIN result.floats


(***************************************************************************)
(* Inputs of the three operations (SpecCalls)                              *)
(***************************************************************************)

C26_MisplacedLinesSkipped ==
    [][LET kind(i) == file_lines[i].kind
           PrefabLines == {i \in DOMAIN file_lines : kind(i) = "prefab"}
           MeshesOf(p) == {m \in DOMAIN file_lines :
                             /\ kind(m) = "mesh" /\ m > p
                             /\ \A j \in (p + 1)..(m - 1) : kind(j) # "prefab"}
           SlotsOf(m) == {i \in DOMAIN file_lines :
                             /\ kind(i) \in {"slot", "custom_slot"} /\ i > m
                             /\ \A j \in (m + 1)..(i - 1) : kind(j) \notin {"prefab", "mesh"}}
           Kth(S, k) == CHOOSE x \in S : Cardinality({y \in S : y < x}) = k - 1
           SlotOf(i) == [material_name |-> file_lines[i].name,
                         texture_name |-> IF kind(i) = "custom_slot" THEN None ELSE "Texture_01",
                         uses_custom_shader |-> kind(i) = "custom_slot"]
           MeshOf(m) == [mesh_name |-> file_lines[m].name,
                         slots |-> [n \in 1..Cardinality(SlotsOf(m)) |->
                                        SlotOf(Kth(SlotsOf(m), n))]]
           PrefabOf(p) == [prefab_name |-> file_lines[p].name,
                           meshes |-> [n \in 1..Cardinality(MeshesOf(p)) |->
                                          MeshOf(Kth(MeshesOf(p), n))]]
           AtMisplaced ==
               /\ pc = "parsing" /\ line_num <= Len(file_lines)
               /\ \/ kind(line_num) \in {"slot", "custom_slot", "bad_slot"}
                     /\ current_mesh = NoMesh
                  \/ kind(line_num) = "mesh" /\ current_prefab = NoPrefab
       IN /\ AtMisplaced =>
                /\ pc' = "parsing" /\ line_num' = line_num + 1
                /\ prefabs' = prefabs
                /\ current_prefab' = current_prefab
                /\ current_mesh' = current_mesh
          /\ pc' = "parsing" =>
                (current_mesh' = NoMesh <=>
                    \A m \in 1..(line_num' - 1) :
                        kind(m) = "mesh" =>
                            \/ \E j \in (m + 1)..(line_num' - 1) : kind(j) = "prefab"
                            \/ \A j \in 1..(m - 1) : kind(j) # "prefab")
          /\ pc' = "parsed" =>
                prefabs' = [n \in 1..Cardinality(PrefabLines) |-> PrefabOf(Kth(PrefabLines, n))]
          /\ pc' = "raised" => PrefabLines = {}]_vars

\* Prefab, Mesh, Prefab, Slot: the slot after the second Prefab line is in no
\* mesh, the mesh of the first prefab has no slot
C26_Witness ==
    /\ pc = "parsed"
    /\ Len(file_lines) = 4
    /\ <<file_lines[1].kind, file_lines[2].kind, file_lines[3].kind, file_lines[4].kind>>
          = <<"prefab", "mesh", "prefab", "slot">>
    /\ prefabs = << [prefab_name |-> "L1", meshes |-> <<[mesh_name |-> "L2", slots |-> <<>>]>>],
                    [prefab_name |-> "L3", meshes |-> <<>>] >>

====
